---- MODULE Spec2Model ----
(***************************************************************************)
(* MAGIA Event Unit: the software wait engine of event_unit_utils.h over   *)
(* the sticky event buffer of the event unit.                              *)
(*                                                                         *)
(* A 32-bit mask is modelled as the set of its bit positions: & is \cap,   *)
(* | is \cup, ~ is complement in 0..31, and the value 0 is {}.             *)
(*                                                                         *)
(* One software thread (pc) runs the API functions; the accelerators set   *)
(* done bits in the buffer at any instant (HwEvent).  Every step of the    *)
(* thread makes at most one access to an event-unit register, so that the  *)
(* hardware can interleave between any two accesses.                       *)
(***************************************************************************)
EXTENDS Integers, FiniteSets, Sequences, TLC

VARIABLES
    StickyBuffer,        \* EU_CORE_BUFFER: sticky event bits
    EnabledMask,         \* EU_CORE_MASK
    InterruptMask,       \* EU_CORE_IRQ_MASK
    pc,                  \* position of the software thread
    op,                  \* API function of the current (or last) top-level call
    ret,                 \* value returned by the last top-level call
    event_mask,          \* eu_wait_events_*: parameter event_mask
    timeout_cycles,      \* eu_wait_events_polling: parameter timeout_cycles
    cycles,              \* eu_wait_events_polling: local cycles (uint32_t)
    detected_events,     \* eu_wait_events_*: local detected_events (and its return value)
    required_mask,       \* eu_multi_wait_all: local required_mask; eu_multi_wait_any: local wait_mask
    mode,                \* eu_multi_wait_all / eu_wait_events: parameter mode
    accumulated_events,  \* eu_multi_wait_all, WFE branch: local accumulated_events
    wa_cycles,           \* eu_multi_wait_all, polling branch: local cycles
    preset,              \* history: an awaited enabled bit was set when the wait was called
    window,              \* history: awaited enabled bits set between first check and WFE
    signalled,           \* history: required bits signalled early in a wait-all call
    laps,                \* history: times the 32-bit counter cycles has wrapped in this call
    next_id,             \* iDMA, per direction: the next-id register
    done_id,             \* iDMA, per direction: the done-id register
    in_flight,           \* iDMA, per direction: the transfers launched and not completed
    direction,           \* direction of the ticket waited for
    transfer_id,         \* id of the ticket waited for (transfer_id, dma_tx_id)
    timeout_left,        \* idma_mm_wait_for_completion: local timeout
    done_id_axi2obi,     \* idma_tx_cplt: local done_id_axi2obi
    dma_ret,             \* value returned by the last iDMA function
    calls,               \* history: register accesses made by the caller so far
    prev_call,           \* history: a call (function, mask or arguments, value) and the registers before and after a call
    c_sync_state,        \* obi_slave_fsync: state of the synchronization FSM
    aggr_reg,            \* obi_slave_fsync: aggregate-parameter register
    id_reg,              \* obi_slave_fsync: id-parameter register
    STALLING,            \* fsync_mm: the build defines STALLING
    sync_id,             \* fsync_mm: parameter id
    aggregate,           \* fsync_mm: parameter aggregate
    status,              \* fsync_mm: local status
    wake_seen,           \* history: a wake was received since the last accepted control write
    idma_base,           \* IDMA_BASE / IDMA_BASE_ADDR: base address of the iDMA control space
    obi_req,             \* idma_obi_ctrl_decoder: obi_req_i.req
    obi_addr,            \* idma_obi_ctrl_decoder: obi_req_i.a.addr
    mm_direction,        \* idma_mm_*_dir: parameter is_l1_to_l2 of the access on the bus
    mm_offset            \* idma_mm_*_dir: register offset of the access on the bus

hw == <<StickyBuffer, EnabledMask, InterruptMask>>
waitLocals == <<event_mask, timeout_cycles, cycles, detected_events>>
multiLocals == <<required_mask, mode, accumulated_events, wa_cycles>>
hist == <<preset, window, signalled>>
\* the state the event-unit wait functions leave alone
dmaHw == <<next_id, done_id, in_flight>>
dmaLocals == <<direction, transfer_id, timeout_left, done_id_axi2obi, dma_ret>>
fsyncHw == <<c_sync_state, aggr_reg, id_reg>>
fsyncLocals == <<STALLING, sync_id, aggregate, status, wake_seen>>
decoder == <<idma_base, obi_req, obi_addr, mm_direction, mm_offset>>
\* the state added for the register, wait-any and barrier-unit operations
ext == <<calls, prev_call, c_sync_state, aggr_reg, id_reg, STALLING, sync_id,
         aggregate, status, wake_seen, idma_base, obi_req, obi_addr, mm_direction,
         mm_offset>>
aux == <<laps, next_id, done_id, in_flight, direction, transfer_id, timeout_left,
         done_id_axi2obi, dma_ret, calls, prev_call, c_sync_state, aggr_reg, id_reg,
         STALLING, sync_id, aggregate, status, wake_seen, idma_base, obi_req,
         obi_addr, mm_direction, mm_offset>>
vars == <<StickyBuffer, EnabledMask, InterruptMask, pc, op, ret, event_mask,
          timeout_cycles, cycles, detected_events, required_mask, mode,
          accumulated_events, wa_cycles, preset, window, signalled, laps,
          next_id, done_id, in_flight, direction, transfer_id, timeout_left,
          done_id_axi2obi, dma_ret, calls, prev_call, c_sync_state, aggr_reg,
          id_reg, STALLING, sync_id, aggregate, status, wake_seen, idma_base,
          obi_req, obi_addr, mm_direction, mm_offset>>

----------------------------------------------------------------------------
(* Event bit mapping *)

EU_IDMA_A2O_DONE_BIT == 2
EU_IDMA_O2A_DONE_BIT == 3
EU_REDMULE_DONE_BIT == 10
EU_FSYNC_DONE_BIT == 24
EU_FSYNC_ERROR_BIT == 25

EU_ALL == 0 .. 31
EU_REDMULE_DONE_MASK == {EU_REDMULE_DONE_BIT}
EU_REDMULE_ALL_MASK == 8 .. 11
EU_IDMA_A2O_DONE_MASK == {EU_IDMA_A2O_DONE_BIT}
EU_IDMA_O2A_DONE_MASK == {EU_IDMA_O2A_DONE_BIT}
EU_IDMA_ALL_DONE_MASK == EU_IDMA_A2O_DONE_MASK \cup EU_IDMA_O2A_DONE_MASK
EU_IDMA_ALL_MASK == 2 .. 3
EU_FSYNC_DONE_MASK == {EU_FSYNC_DONE_BIT}
EU_FSYNC_ALL_MASK == {EU_FSYNC_DONE_BIT, EU_FSYNC_ERROR_BIT}

EU_WAIT_MODE_POLLING == "POLLING"
EU_WAIT_MODE_WFE == "WFE"
WaitModes == {EU_WAIT_MODE_POLLING, EU_WAIT_MODE_WFE}

(* The done lines the accelerators drive: RedMulE, iDMA A2O, iDMA O2A, FSync *)
DoneBits ==
    {EU_REDMULE_DONE_BIT, EU_IDMA_A2O_DONE_BIT, EU_IDMA_O2A_DONE_BIT, EU_FSYNC_DONE_BIT}

----------------------------------------------------------------------------
(* iDMA *)

IDMA_DIR_L2_TO_L1 == 0
IDMA_DIR_L1_TO_L2 == 1
Dirs == {IDMA_DIR_L2_TO_L1, IDMA_DIR_L1_TO_L2}

\* the done line of a direction in the event buffer
DoneBit(d) ==
    IF d = IDMA_DIR_L1_TO_L2 THEN EU_IDMA_O2A_DONE_BIT ELSE EU_IDMA_A2O_DONE_BIT

(* after reset no transfer has been launched: the first id handed out is 1 *)
(* and the done-id registers read 0                                        *)
DmaReset ==
    /\ next_id = [d \in Dirs |-> 1]
    /\ done_id = [d \in Dirs |-> 0]
    /\ in_flight = [d \in Dirs |-> <<>>]
    /\ direction = IDMA_DIR_L2_TO_L1
    /\ transfer_id = 0
    /\ timeout_left = 0
    /\ done_id_axi2obi = 0
    /\ dma_ret = 0

----------------------------------------------------------------------------
(* FractalSync barrier unit *)

IDLE == "IDLE"
SYNC == "SYNC"
WAIT == "WAIT"
DONE == "DONE"

\* no call has been made yet
NoCall ==
    [op |-> "none", mask |-> {}, val |-> {}, before |-> <<{}, {}, {}>>,
     after |-> <<{}, {}, {}>>]

\* IDMA_BASE: 0x500
IDMA_BASE == 1280

(* state before the first register access, wait-any call or barrier; the   *)
(* barrier unit after reset: FSM in IDLE, parameter registers 0            *)
ExtReset ==
    /\ calls = 0
    /\ prev_call = NoCall
    /\ c_sync_state = IDLE
    /\ aggr_reg = 0
    /\ id_reg = 0
    /\ sync_id = 0
    /\ aggregate = 0
    /\ status = {}
    /\ wake_seen = FALSE
    /\ obi_req = FALSE
    /\ obi_addr = 0
    /\ mm_direction = 0
    /\ mm_offset = 0

----------------------------------------------------------------------------
(* Bounds of the model *)

\* polls allowed to a wait with timeout_cycles = 0 (which the code never ends)
MaxFreePolls == 3
\* outer iterations of the polling wait-all (the program's budget is 10000)
MaxOuterIters == 3

PollDelay == 10
MultiIterTimeout == 100
MultiTimeoutCycles == MaxOuterIters * MultiIterTimeout

\* wraps of the 32-bit counter followed in one call of the polling wait
MaxLaps == 2
\* the 32-bit loop is followed iteration by iteration while its counter is
\* within this distance of 0 or of 2^32, and by runs of iterations in between
FollowWindow == 60

\* transfers launched on one direction of the iDMA
MaxTickets == 2
\* polls of idma_mm_wait_for_completion (the program's budget is 1000000)
MaxCompletionPolls == 2
\* polls of the event-unit waits of the iDMA helpers (the program's budget
\* is 1000000 cycles, 100000 polls)
MaxDirPolls == 2

\* register accesses followed in one run of the register operations
MaxCalls == 3

\* arguments of fsync_mm: aggregate 1 is a neighbour request, the others go to
\* a tree; the low bits of id select the port
SyncAggregates == {1, 2}
SyncIds == 0 .. 3

\* arguments the caller passes
\* the sources in use: the FSync unit is left idle (event_unit_test.c)
UsedBits == {EU_REDMULE_DONE_BIT, EU_IDMA_A2O_DONE_BIT, EU_IDMA_O2A_DONE_BIT}
WaitMasks == SUBSET UsedBits
Timeouts == {0, 25}
InitMasks == {EU_IDMA_A2O_DONE_MASK, EU_IDMA_O2A_DONE_MASK, EU_REDMULE_DONE_MASK}

----------------------------------------------------------------------------
(* Register accesses *)

\* mutant: the write clears the whole buffer, whatever the mask
eu_clear_events_whole_buffer(mask) ==
    StickyBuffer' = {}

eu_clear_events(mask) ==
    StickyBuffer' = StickyBuffer \ mask

\* mutant: the mask is written to EU_CORE_MASK instead of EU_CORE_MASK_OR
eu_enable_events_assign(mask) ==
    EnabledMask' = mask

eu_enable_events(mask) ==
    EnabledMask' = EnabledMask \cup mask

\* mutant: the written value is AND-ed into the mask
eu_disable_events_and(mask) ==
    EnabledMask' = EnabledMask \cap mask

eu_disable_events(mask) ==
    EnabledMask' = EnabledMask \ mask

eu_enable_irq(mask) ==
    InterruptMask' = InterruptMask \cup mask

eu_disable_irq(mask) ==
    InterruptMask' = InterruptMask \ mask

eu_get_events ==
    StickyBuffer

eu_get_events_irq_masked ==
    StickyBuffer \cap InterruptMask

eu_get_events_masked ==
    StickyBuffer \cap EnabledMask

\* mutant: the enable mask is not applied
eu_check_events_unmasked(mask) ==
    eu_get_events \cap mask

eu_check_events(mask) ==
    eu_get_events_masked \cap mask

(* The core leaves WFE when the event unit raises its request: an event is *)
(* pending in the buffer (level-held) and armed in the IRQ mask.            *)
WakeCondition ==
    (StickyBuffer \cap InterruptMask) # {}

----------------------------------------------------------------------------
Reset ==
    /\ StickyBuffer = {}
    /\ EnabledMask = {}
    /\ InterruptMask = {}
    /\ pc = "idle"
    /\ op = "none"
    /\ ret = {}
    /\ event_mask = {}
    /\ timeout_cycles = 0
    /\ cycles = 0
    /\ detected_events = {}
    /\ required_mask = {}
    /\ mode = EU_WAIT_MODE_POLLING
    /\ accumulated_events = {}
    /\ wa_cycles = 0
    /\ preset = FALSE
    /\ laps = 0
    /\ DmaReset
    /\ ExtReset
    /\ window = {}
    /\ signalled = {}

\* the event-unit and iDMA programs make no use of the STALLING build flag
Init ==
    /\ Reset
    /\ STALLING = FALSE
    /\ idma_base = IDMA_BASE

----------------------------------------------------------------------------
(* Hardware: an accelerator signals completion on its done line.  The bit   *)
(* is latched in the buffer whatever the masks are.                         *)
HwEvent(b) ==
    /\ b \notin StickyBuffer
    /\ StickyBuffer' = StickyBuffer \cup {b}
    /\ window' = IF pc \in {"wfe_arm", "wfe_sleep"} /\ b \in event_mask \cap EnabledMask
                   THEN window \cup {b}
                   ELSE window
    /\ signalled' = IF op = "wait_all" /\ pc # "done" /\ wa_cycles = 0
                        /\ b \in required_mask \cap EnabledMask
                      THEN signalled \cup {b}
                      ELSE signalled
    /\ UNCHANGED <<EnabledMask, InterruptMask, pc, op, ret, preset>>
    /\ UNCHANGED waitLocals
    /\ UNCHANGED multiLocals
    /\ UNCHANGED aux

----------------------------------------------------------------------------
(* Calls and returns *)

\* a top-level call that is no wait-all: the wait-all locals are dead
NoMulti ==
    /\ required_mask' = {}
    /\ mode' = EU_WAIT_MODE_POLLING
    /\ accumulated_events' = {}
    /\ wa_cycles' = 0
    /\ signalled' = {}

\* a top-level call that waits for nothing
NoWait ==
    /\ event_mask' = {}
    /\ timeout_cycles' = 0
    /\ cycles' = 0
    /\ detected_events' = {}
    /\ preset' = FALSE
    /\ window' = {}

\* return of a top-level function to its caller
TopReturn(val) ==
    /\ pc' = "done"
    /\ ret' = val

\* entry of eu_wait_events_polling(mask, timeout)
enter_polling(mask, timeout) ==
    /\ pc' = "poll"
    /\ event_mask' = mask
    /\ timeout_cycles' = timeout
    /\ cycles' = 0
    /\ preset' = (eu_check_events(mask) # {})
    /\ window' = {}

\* entry of eu_wait_events_wfe(mask)
enter_wfe(mask) ==
    /\ pc' = "wfe_check"
    /\ event_mask' = mask
    /\ preset' = (eu_check_events(mask) # {})
    /\ window' = {}

\* eu_wait_events(mask, m, timeout): the switch on the mode
eu_wait_events(mask, m, timeout) ==
    IF m = EU_WAIT_MODE_WFE
      THEN enter_wfe(mask)
      ELSE enter_polling(mask, timeout)

\* mutant: the WFE branch overwrites accumulated_events instead of OR-ing
WaitReturn_overwrite(val) ==
    /\ detected_events' = val
    /\ event_mask' = {}
    /\ timeout_cycles' = 0
    /\ IF op = "wait_all"
         THEN /\ ret' = ret
              /\ IF mode = EU_WAIT_MODE_WFE
                   THEN /\ pc' = "wa_loop"
                        /\ accumulated_events' = val
                   ELSE /\ pc' = "wp_test"
                        /\ accumulated_events' = accumulated_events
         ELSE /\ TopReturn(val)
              /\ accumulated_events' = accumulated_events

\* return of eu_wait_events_* with value val, to the top level or into
\* eu_multi_wait_all (WFE branch: accumulated_events |= detected_events)
WaitReturn(val) ==
    /\ detected_events' = val
    /\ event_mask' = {}
    /\ timeout_cycles' = 0
    /\ IF op = "wait_all"
         THEN /\ ret' = ret
              /\ IF mode = EU_WAIT_MODE_WFE
                   THEN /\ pc' = "wa_loop"
                        /\ accumulated_events' = accumulated_events \cup val
                   ELSE /\ pc' = "wp_test"
                        /\ accumulated_events' = accumulated_events
         ELSE /\ TopReturn(val)
              /\ accumulated_events' = accumulated_events

----------------------------------------------------------------------------
\* mutant: the detected bits are cleared from the buffer before the return
eu_wait_events_polling_clearing ==
    /\ pc = "poll"
    /\ timeout_cycles = 0 => cycles < MaxFreePolls * PollDelay
    /\ LET d == eu_check_events(event_mask)
           c == cycles + PollDelay
       IN  IF d # {}
             THEN /\ WaitReturn(d)
                  /\ cycles' = cycles
                  /\ eu_clear_events(d)
             ELSE /\ cycles' = c
                  /\ UNCHANGED StickyBuffer
                  /\ IF timeout_cycles = 0 \/ c < timeout_cycles
                       THEN /\ detected_events' = d
                            /\ UNCHANGED <<pc, ret, event_mask, timeout_cycles,
                                           accumulated_events>>
                       ELSE WaitReturn({})
    /\ UNCHANGED <<op, required_mask, mode, wa_cycles>>
    /\ UNCHANGED <<EnabledMask, InterruptMask>>
    /\ UNCHANGED hist
    /\ UNCHANGED aux

\* mutant: the loop condition is cycles < timeout_cycles alone
eu_wait_events_polling_zero_is_finite ==
    /\ pc = "poll"
    /\ timeout_cycles = 0 => cycles < MaxFreePolls * PollDelay
    /\ LET d == eu_check_events(event_mask)
           c == cycles + PollDelay
       IN  IF d # {}
             THEN /\ WaitReturn(d)
                  /\ cycles' = cycles
             ELSE /\ cycles' = c
                  /\ IF c < timeout_cycles
                       THEN /\ detected_events' = d
                            /\ UNCHANGED <<pc, ret, event_mask, timeout_cycles,
                                           accumulated_events>>
                       ELSE WaitReturn({})
    /\ UNCHANGED <<op, required_mask, mode, wa_cycles>>
    /\ UNCHANGED hw
    /\ UNCHANGED hist
    /\ UNCHANGED aux

(* eu_wait_events_polling: one iteration of the do-while loop *)
eu_wait_events_polling ==
    /\ pc = "poll"
    /\ timeout_cycles = 0 => cycles < MaxFreePolls * PollDelay
    /\ LET d == eu_check_events(event_mask)
           c == cycles + PollDelay
       IN  IF d # {}
             THEN /\ WaitReturn(d)
                  /\ cycles' = cycles
             ELSE /\ cycles' = c
                  /\ IF timeout_cycles = 0 \/ c < timeout_cycles
                       THEN /\ detected_events' = d
                            /\ UNCHANGED <<pc, ret, event_mask, timeout_cycles,
                                           accumulated_events>>
                       ELSE WaitReturn({})
    /\ UNCHANGED <<op, required_mask, mode, wa_cycles>>
    /\ UNCHANGED hw
    /\ UNCHANGED hist
    /\ UNCHANGED aux

\* mutant: the early return on an already pending event is dropped
eu_wait_events_wfe_check_no_early_return ==
    /\ pc = "wfe_check"
    /\ pc' = "wfe_arm"
    /\ detected_events' = eu_check_events(event_mask)
    /\ UNCHANGED <<ret, event_mask, timeout_cycles, accumulated_events>>
    /\ UNCHANGED <<op, cycles, required_mask, mode, wa_cycles>>
    /\ UNCHANGED hw
    /\ UNCHANGED hist
    /\ UNCHANGED aux

\* mutant: the IRQ mask is armed before the first check
eu_wait_events_wfe_check_arming ==
    /\ pc = "wfe_check"
    /\ eu_enable_irq(event_mask)
    /\ LET d == eu_check_events(event_mask)
       IN  IF d # {}
             THEN WaitReturn(d)
             ELSE /\ pc' = "wfe_arm"
                  /\ detected_events' = d
                  /\ UNCHANGED <<ret, event_mask, timeout_cycles, accumulated_events>>
    /\ UNCHANGED <<op, cycles, required_mask, mode, wa_cycles>>
    /\ UNCHANGED <<StickyBuffer, EnabledMask>>
    /\ UNCHANGED hist
    /\ UNCHANGED aux

(* eu_wait_events_wfe: the first check *)
eu_wait_events_wfe_check ==
    /\ pc = "wfe_check"
    /\ LET d == eu_check_events(event_mask)
       IN  IF d # {}
             THEN WaitReturn(d)
             ELSE /\ pc' = "wfe_arm"
                  /\ detected_events' = d
                  /\ UNCHANGED <<ret, event_mask, timeout_cycles, accumulated_events>>
    /\ UNCHANGED <<op, cycles, required_mask, mode, wa_cycles>>
    /\ UNCHANGED hw
    /\ UNCHANGED hist
    /\ UNCHANGED aux

\* mutant: the IRQ mask is not armed before the WFE
eu_wait_events_wfe_arm_skipped ==
    /\ pc = "wfe_arm"
    /\ pc' = "wfe_sleep"
    /\ UNCHANGED <<op, ret>>
    /\ UNCHANGED hw
    /\ UNCHANGED waitLocals
    /\ UNCHANGED multiLocals
    /\ UNCHANGED hist
    /\ UNCHANGED aux

\* mutant: only the awaited events that are enabled are armed
eu_wait_events_wfe_arm_enabled_only ==
    /\ pc = "wfe_arm"
    /\ eu_enable_irq(event_mask \cap EnabledMask)
    /\ pc' = "wfe_sleep"
    /\ UNCHANGED <<StickyBuffer, EnabledMask, op, ret>>
    /\ UNCHANGED waitLocals
    /\ UNCHANGED multiLocals
    /\ UNCHANGED hist
    /\ UNCHANGED aux

(* eu_wait_events_wfe: eu_enable_irq(event_mask) *)
eu_wait_events_wfe_arm ==
    /\ pc = "wfe_arm"
    /\ eu_enable_irq(event_mask)
    /\ pc' = "wfe_sleep"
    /\ UNCHANGED <<StickyBuffer, EnabledMask, op, ret>>
    /\ UNCHANGED waitLocals
    /\ UNCHANGED multiLocals
    /\ UNCHANGED hist
    /\ UNCHANGED aux

(* eu_wait_events_wfe: the WFE instruction, which the core leaves on wake-up *)
eu_wait_events_wfe_sleep ==
    /\ pc = "wfe_sleep"
    /\ WakeCondition
    /\ pc' = "wfe_recheck"
    /\ UNCHANGED <<op, ret>>
    /\ UNCHANGED hw
    /\ UNCHANGED waitLocals
    /\ UNCHANGED multiLocals
    /\ UNCHANGED hist
    /\ UNCHANGED aux

\* mutant: the detected bits are cleared from the buffer before the return
eu_wait_events_wfe_recheck_clearing ==
    /\ pc = "wfe_recheck"
    /\ WaitReturn(eu_check_events(event_mask))
    /\ eu_clear_events(eu_check_events(event_mask))
    /\ UNCHANGED <<op, cycles, required_mask, mode, wa_cycles>>
    /\ UNCHANGED <<EnabledMask, InterruptMask>>
    /\ UNCHANGED hist
    /\ UNCHANGED aux

\* mutant: a wake-up that finds nothing goes back to the WFE instead of returning
eu_wait_events_wfe_recheck_resleeps ==
    /\ pc = "wfe_recheck"
    /\ IF eu_check_events(event_mask) # {}
         THEN WaitReturn(eu_check_events(event_mask))
         ELSE /\ pc' = "wfe_sleep"
              /\ UNCHANGED <<ret, event_mask, timeout_cycles, detected_events,
                             accumulated_events>>
    /\ UNCHANGED <<op, cycles, required_mask, mode, wa_cycles>>
    /\ UNCHANGED hw
    /\ UNCHANGED hist
    /\ UNCHANGED aux

(* eu_wait_events_wfe: the check after wake-up and the return *)
eu_wait_events_wfe_recheck ==
    /\ pc = "wfe_recheck"
    /\ WaitReturn(eu_check_events(event_mask))
    /\ UNCHANGED <<op, cycles, required_mask, mode, wa_cycles>>
    /\ UNCHANGED hw
    /\ UNCHANGED hist
    /\ UNCHANGED aux

----------------------------------------------------------------------------
(* eu_multi_wait_all *)

\* the required mask built from the four wait_* flags
RequiredMask(wait_redmule, wait_idma_a2o, wait_idma_o2a, wait_fsync) ==
    (IF wait_redmule THEN EU_REDMULE_DONE_MASK ELSE {})
      \cup (IF wait_idma_a2o THEN EU_IDMA_A2O_DONE_MASK ELSE {})
      \cup (IF wait_idma_o2a THEN EU_IDMA_O2A_DONE_MASK ELSE {})
      \cup (IF wait_fsync THEN EU_FSYNC_DONE_MASK ELSE {})

\* wait_mask = required_mask, never changed afterwards
wait_mask ==
    required_mask

(* WFE branch: the while test, then either the next eu_wait_events on the  *)
(* missing events or the clear after the loop and the return               *)
eu_multi_wait_all_wfe ==
    /\ pc = "wa_loop"
    /\ IF (accumulated_events \cap required_mask) # required_mask
         THEN /\ eu_wait_events(required_mask \ accumulated_events, EU_WAIT_MODE_WFE, 0)
              /\ UNCHANGED <<StickyBuffer, ret, timeout_cycles, cycles, detected_events>>
         ELSE /\ eu_clear_events(accumulated_events)
              /\ TopReturn(accumulated_events)
              /\ UNCHANGED <<preset, window>>
              /\ UNCHANGED waitLocals
    /\ UNCHANGED <<EnabledMask, InterruptMask, op, signalled>>
    /\ UNCHANGED multiLocals
    /\ UNCHANGED aux

(* polling branch: the while test, then the next eu_wait_events *)
eu_multi_wait_all_poll ==
    /\ pc = "wp_loop"
    /\ IF wa_cycles < MultiTimeoutCycles
         THEN /\ eu_wait_events(wait_mask, mode, MultiIterTimeout)
              /\ UNCHANGED <<ret, detected_events>>
         ELSE /\ TopReturn({})
              /\ UNCHANGED <<preset, window>>
              /\ UNCHANGED waitLocals
    /\ UNCHANGED <<op, signalled>>
    /\ UNCHANGED hw
    /\ UNCHANGED multiLocals
    /\ UNCHANGED aux

\* mutant: the budget counter is not advanced
eu_multi_wait_all_test_no_advance ==
    /\ pc = "wp_test"
    /\ IF (detected_events \cap required_mask) = required_mask
         THEN /\ TopReturn(detected_events)
              /\ UNCHANGED <<StickyBuffer, wa_cycles>>
         ELSE /\ IF detected_events # {}
                   THEN eu_clear_events(detected_events)
                   ELSE UNCHANGED StickyBuffer
              /\ wa_cycles' = wa_cycles
              /\ pc' = "wp_loop"
              /\ UNCHANGED ret
    /\ UNCHANGED <<EnabledMask, InterruptMask, op, required_mask, mode,
                   accumulated_events>>
    /\ UNCHANGED waitLocals
    /\ UNCHANGED hist
    /\ UNCHANGED aux

\* mutant: a partial detection is left in the buffer
eu_multi_wait_all_test_no_clear ==
    /\ pc = "wp_test"
    /\ IF (detected_events \cap required_mask) = required_mask
         THEN /\ TopReturn(detected_events)
              /\ UNCHANGED wa_cycles
         ELSE /\ wa_cycles' = wa_cycles + MultiIterTimeout
              /\ pc' = "wp_loop"
              /\ UNCHANGED ret
    /\ UNCHANGED <<StickyBuffer, EnabledMask, InterruptMask, op, required_mask, mode,
                   accumulated_events>>
    /\ UNCHANGED waitLocals
    /\ UNCHANGED hist
    /\ UNCHANGED aux

\* mutant: an empty detection never counts as complete
eu_multi_wait_all_test_nonzero_only ==
    /\ pc = "wp_test"
    /\ IF detected_events # {} /\ (detected_events \cap required_mask) = required_mask
         THEN /\ TopReturn(detected_events)
              /\ UNCHANGED <<StickyBuffer, wa_cycles>>
         ELSE /\ IF detected_events # {}
                   THEN eu_clear_events(detected_events)
                   ELSE UNCHANGED StickyBuffer
              /\ wa_cycles' = wa_cycles + MultiIterTimeout
              /\ pc' = "wp_loop"
              /\ UNCHANGED ret
    /\ UNCHANGED <<EnabledMask, InterruptMask, op, required_mask, mode,
                   accumulated_events>>
    /\ UNCHANGED waitLocals
    /\ UNCHANGED hist
    /\ UNCHANGED aux

(* polling branch: the body of the loop after eu_wait_events has returned *)
eu_multi_wait_all_test ==
    /\ pc = "wp_test"
    /\ IF (detected_events \cap required_mask) = required_mask
         THEN /\ TopReturn(detected_events)
              /\ UNCHANGED <<StickyBuffer, wa_cycles>>
         ELSE /\ IF detected_events # {}
                   THEN eu_clear_events(detected_events)
                   ELSE UNCHANGED StickyBuffer
              /\ wa_cycles' = wa_cycles + MultiIterTimeout
              /\ pc' = "wp_loop"
              /\ UNCHANGED ret
    /\ UNCHANGED <<EnabledMask, InterruptMask, op, required_mask, mode,
                   accumulated_events>>
    /\ UNCHANGED waitLocals
    /\ UNCHANGED hist
    /\ UNCHANGED aux

----------------------------------------------------------------------------
(* The caller: API functions called from the top level *)

EuInit ==
    /\ pc = "idle"
    /\ StickyBuffer' = StickyBuffer \ EU_ALL
    /\ EnabledMask' = {}
    /\ InterruptMask' = {}
    /\ op' = "eu_init"
    /\ TopReturn({})
    /\ NoWait
    /\ NoMulti
    /\ UNCHANGED aux

EuClearEvents(mask) ==
    /\ pc = "idle"
    /\ eu_clear_events(mask)
    /\ op' = "eu_clear_events"
    /\ TopReturn({})
    /\ NoWait
    /\ NoMulti
    /\ UNCHANGED <<EnabledMask, InterruptMask>>
    /\ UNCHANGED aux

EuEnableEvents(mask) ==
    /\ pc = "idle"
    /\ eu_enable_events(mask)
    /\ op' = "eu_enable_events"
    /\ TopReturn({})
    /\ NoWait
    /\ NoMulti
    /\ UNCHANGED <<StickyBuffer, InterruptMask>>
    /\ UNCHANGED aux

EuMultiInit(redmule_enable, idma_a2o_enable, idma_o2a_enable, fsync_enable, enable_irq) ==
    /\ pc = "idle"
    /\ LET em == (IF redmule_enable THEN EU_REDMULE_ALL_MASK ELSE {})
                   \cup (IF idma_a2o_enable THEN EU_IDMA_A2O_DONE_MASK ELSE {})
                   \cup (IF idma_o2a_enable THEN EU_IDMA_O2A_DONE_MASK ELSE {})
                   \cup (IF fsync_enable THEN EU_FSYNC_ALL_MASK ELSE {})
           im == IF enable_irq
                   THEN RequiredMask(redmule_enable, idma_a2o_enable,
                                     idma_o2a_enable, fsync_enable)
                   ELSE {}
       IN  /\ eu_clear_events(EU_ALL)
           /\ eu_enable_events(em)
           /\ eu_enable_irq(im)
    /\ op' = "eu_multi_init"
    /\ TopReturn({})
    /\ NoWait
    /\ NoMulti
    /\ UNCHANGED aux

EuWaitEventsPolling(mask, timeout) ==
    /\ pc = "idle"
    /\ enter_polling(mask, timeout)
    /\ detected_events' = {}
    /\ op' = "eu_wait_events_polling"
    /\ ret' = {}
    /\ NoMulti
    /\ UNCHANGED hw
    /\ UNCHANGED aux

EuWaitEventsWfe(mask) ==
    /\ pc = "idle"
    /\ enter_wfe(mask)
    /\ detected_events' = {}
    /\ timeout_cycles' = 0
    /\ cycles' = 0
    /\ op' = "eu_wait_events_wfe"
    /\ ret' = {}
    /\ NoMulti
    /\ UNCHANGED hw
    /\ UNCHANGED aux

EuMultiWaitAll(wait_redmule, wait_idma_a2o, wait_idma_o2a, wait_fsync, m) ==
    /\ pc = "idle"
    /\ LET rm == RequiredMask(wait_redmule, wait_idma_a2o, wait_idma_o2a, wait_fsync)
       IN  /\ required_mask' = rm
           /\ signalled' = eu_check_events(rm)
    /\ mode' = m
    /\ accumulated_events' = {}
    /\ wa_cycles' = 0
    /\ pc' = IF m = EU_WAIT_MODE_WFE THEN "wa_loop" ELSE "wp_loop"
    /\ op' = "wait_all"
    /\ ret' = {}
    /\ NoWait
    /\ UNCHANGED hw
    /\ UNCHANGED aux

\* the caller has taken the return value and goes on: the locals are dead
CallerResumes ==
    /\ pc = "done"
    /\ pc' = "idle"
    /\ op' = "none"
    /\ ret' = {}
    /\ NoWait
    /\ NoMulti
    /\ UNCHANGED hw
    /\ UNCHANGED aux

----------------------------------------------------------------------------
Caller ==
    \/ CallerResumes
    \/ EuInit
    \/ \E mask \in {EU_ALL} : EuClearEvents(mask)
    \/ \E mask \in InitMasks : EuEnableEvents(mask)
    \/ \E r \in BOOLEAN, a \in BOOLEAN, o \in BOOLEAN, i \in BOOLEAN :
          EuMultiInit(r, a, o, FALSE, i)
    \/ \E mask \in WaitMasks, timeout \in Timeouts : EuWaitEventsPolling(mask, timeout)
    \/ \E mask \in WaitMasks : EuWaitEventsWfe(mask)
    \/ \E r \in BOOLEAN, a \in BOOLEAN, o \in BOOLEAN, m \in WaitModes :
          EuMultiWaitAll(r, a, o, FALSE, m)

Thread ==
    \/ eu_wait_events_polling
    \/ eu_wait_events_wfe_check
    \/ eu_wait_events_wfe_arm
    \/ eu_wait_events_wfe_sleep
    \/ eu_wait_events_wfe_recheck
    \/ eu_multi_wait_all_wfe
    \/ eu_multi_wait_all_poll
    \/ eu_multi_wait_all_test

Hardware ==
    \E b \in UsedBits : HwEvent(b)

Next ==
    \/ Caller
    \/ Thread
    \/ Hardware

Spec == Init /\ [][Next]_vars

----------------------------------------------------------------------------
(* The concurrent scenario of event_unit_test.c with all four sources: the *)
(* event unit is initialised with eu_multi_init, the accelerators complete *)
(* in any order and at any instant, and the thread waits for all of them   *)
(* with eu_multi_wait_all in WFE mode.  The thread keeps running, the core  *)
(* leaves WFE when its wake-up is asserted, and every source completes.    *)

OrderCaller ==
    \/ CallerResumes
    \/ \E r \in BOOLEAN, a \in BOOLEAN, o \in BOOLEAN, f \in BOOLEAN, i \in BOOLEAN :
          EuMultiInit(r, a, o, f, i)
    \/ \E r \in BOOLEAN, a \in BOOLEAN, o \in BOOLEAN, f \in BOOLEAN :
          EuMultiWaitAll(r, a, o, f, EU_WAIT_MODE_WFE)

WfeThread ==
    \/ eu_wait_events_wfe_check
    \/ eu_wait_events_wfe_arm
    \/ eu_wait_events_wfe_sleep
    \/ eu_wait_events_wfe_recheck
    \/ eu_multi_wait_all_wfe

AllHardware ==
    \E b \in DoneBits : HwEvent(b)

OrderNext ==
    \/ OrderCaller
    \/ WfeThread
    \/ AllHardware

OrderSpec ==
    /\ Init
    /\ [][OrderNext]_vars
    /\ WF_vars(WfeThread)
    /\ \A b \in DoneBits : WF_vars(HwEvent(b))

----------------------------------------------------------------------------
(* eu_wait_events_polling with its counters at their width.  cycles and    *)
(* timeout_cycles are uint32_t: a value v is kept as the pair <<hi, lo>>   *)
(* of its 16-bit halves, v = hi * 65536 + lo, and cycles += 10 is taken    *)
(* modulo 2^32.  No awaited event line is enabled, so that no poll detects *)
(* anything and the loop is left by the timeout comparison alone.          *)

Half == 65536
Zero32 == <<0, 0>>
Max32 == <<Half - 1, Half - 1>>

\* (w + n) mod 2^32 for 0 <= n < 65536, and whether that addition wraps
Add32(w, n) ==
    IF w[2] + n < Half
      THEN <<w[1], w[2] + n>>
      ELSE <<(w[1] + 1) % Half, w[2] + n - Half>>

Carry32(w, n) ==
    w[1] = Half - 1 /\ w[2] + n >= Half

\* a < b on uint32_t
Lt32(a, b) ==
    \/ a[1] < b[1]
    \/ a[1] = b[1] /\ a[2] < b[2]

\* v mod 10
Rem32(w) ==
    (w[1] * (Half % PollDelay) + w[2]) % PollDelay

\* timeouts passed: 0 (infinite), small ones, and the ones next to 2^32
WrapTimeouts ==
    {Zero32, <<0, 25>>, <<0, 30>>} \cup {<<Half - 1, Half - k>> : k \in 1 .. 10}

\* counter values next to 2^32 at which the model resumes following the loop
SkipTargets ==
    {<<Half - 1, Half - k>> : k \in 21 .. 40}

Near32(w) ==
    \/ w[1] = 0 /\ w[2] < FollowWindow
    \/ w[1] = Half - 1 /\ w[2] >= Half - FollowWindow

(* one iteration of the do-while loop, on 32 bits *)
eu_wait_events_polling32 ==
    /\ pc = "poll"
    /\ Near32(cycles)
    /\ Carry32(cycles, PollDelay) => laps < MaxLaps
    /\ LET d == eu_check_events(event_mask)
           c == Add32(cycles, PollDelay)
       IN  IF d # {}
             THEN /\ detected_events' = d
                  /\ TopReturn(d)
                  /\ UNCHANGED <<cycles, laps>>
             ELSE /\ cycles' = c
                  /\ laps' = IF Carry32(cycles, PollDelay) THEN laps + 1 ELSE laps
                  /\ detected_events' = d
                  /\ IF timeout_cycles = Zero32 \/ Lt32(c, timeout_cycles)
                       THEN UNCHANGED <<pc, ret>>
                       ELSE TopReturn({})
    /\ UNCHANGED <<op, event_mask, timeout_cycles>>
    /\ UNCHANGED hw
    /\ UNCHANGED multiLocals
    /\ UNCHANGED hist
    /\ UNCHANGED dmaHw
    /\ UNCHANGED ext
    /\ UNCHANGED dmaLocals

(* (target - cycles) / 10 consecutive iterations that detect nothing and   *)
(* stay in the loop: every value of cycles on the way is below target,     *)
(* which is below timeout_cycles, and there is no wrap on the way          *)
eu_wait_events_polling32_many ==
    /\ pc = "poll"
    /\ event_mask \cap EnabledMask = {}
    /\ \E target \in SkipTargets :
          /\ Lt32(cycles, target)
          /\ timeout_cycles = Zero32 \/ Lt32(target, timeout_cycles)
          /\ Rem32(target) = Rem32(cycles)
          /\ cycles' = target
    /\ detected_events' = {}
    /\ UNCHANGED <<pc, op, ret, event_mask, timeout_cycles, laps>>
    /\ UNCHANGED hw
    /\ UNCHANGED multiLocals
    /\ UNCHANGED hist
    /\ UNCHANGED dmaHw
    /\ UNCHANGED ext
    /\ UNCHANGED dmaLocals

\* call of eu_wait_events_polling(mask, timeout)
EuWaitEventsPolling32(mask, timeout) ==
    /\ pc = "idle"
    /\ op' = "eu_wait_events_polling"
    /\ pc' = "poll"
    /\ event_mask' = mask
    /\ timeout_cycles' = timeout
    /\ cycles' = Zero32
    /\ laps' = 0
    /\ UNCHANGED <<ret, detected_events>>
    /\ UNCHANGED hw
    /\ UNCHANGED multiLocals
    /\ UNCHANGED hist
    /\ UNCHANGED dmaHw
    /\ UNCHANGED ext
    /\ UNCHANGED dmaLocals

CallerResumes32 ==
    /\ pc = "done"
    /\ pc' = "idle"
    /\ op' = "none"
    /\ ret' = {}
    /\ event_mask' = {}
    /\ timeout_cycles' = Zero32
    /\ cycles' = Zero32
    /\ detected_events' = {}
    /\ laps' = 0
    /\ UNCHANGED hw
    /\ UNCHANGED multiLocals
    /\ UNCHANGED hist
    /\ UNCHANGED dmaHw
    /\ UNCHANGED ext
    /\ UNCHANGED dmaLocals

WrapInit ==
    /\ StickyBuffer = {}
    /\ EnabledMask = {}
    /\ InterruptMask = {}
    /\ pc = "idle"
    /\ op = "none"
    /\ ret = {}
    /\ event_mask = {}
    /\ timeout_cycles = Zero32
    /\ cycles = Zero32
    /\ detected_events = {}
    /\ required_mask = {}
    /\ mode = EU_WAIT_MODE_POLLING
    /\ accumulated_events = {}
    /\ wa_cycles = 0
    /\ preset = FALSE
    /\ window = {}
    /\ signalled = {}
    /\ laps = 0
    /\ DmaReset
    /\ ExtReset
    /\ STALLING = FALSE
    /\ idma_base = IDMA_BASE

WrapNext ==
    \/ \E mask \in InitMasks, timeout \in WrapTimeouts :
          EuWaitEventsPolling32(mask, timeout)
    \/ eu_wait_events_polling32
    \/ eu_wait_events_polling32_many
    \/ CallerResumes32

WrapSpec == WrapInit /\ [][WrapNext]_vars

----------------------------------------------------------------------------
(* The iDMA: two directions, each with its next-id, done-id and status     *)
(* registers.  A read of next-id launches a transfer and returns its id;   *)
(* transfers of a direction complete in launch order; a completion writes  *)
(* the id to done-id and pulses the done line of the direction.            *)

idma_mm_is_busy_dir(is_l1_to_l2) ==
    in_flight[is_l1_to_l2] # <<>>

idma_mm_get_done_id_dir(is_l1_to_l2) ==
    done_id[is_l1_to_l2]

\* is_complete(ticket): the ticket's direction is idle and its done-id is the ticket's
IsComplete(d, id) ==
    ~idma_mm_is_busy_dir(d) /\ idma_mm_get_done_id_dir(d) = id

\* the ticket has been handed out on direction d
Issued(d, id) ==
    id >= 1 /\ id < next_id[d]

\* completion of the oldest transfer in flight on direction d
DmaComplete(d) ==
    /\ in_flight[d] # <<>>
    /\ done_id' = [done_id EXCEPT ![d] = Head(in_flight[d])]
    /\ in_flight' = [in_flight EXCEPT ![d] = Tail(in_flight[d])]
    /\ StickyBuffer' = StickyBuffer \cup {DoneBit(d)}
    /\ window' = IF pc \in {"wfe_arm", "wfe_sleep"}
                      /\ DoneBit(d) \in event_mask \cap EnabledMask
                   THEN window \cup {DoneBit(d)}
                   ELSE window
    /\ UNCHANGED <<EnabledMask, InterruptMask, pc, op, ret, preset, signalled>>
    /\ UNCHANGED waitLocals
    /\ UNCHANGED multiLocals
    /\ UNCHANGED <<laps, next_id>>
    /\ UNCHANGED ext
    /\ UNCHANGED dmaLocals

\* what the iDMA functions leave alone
NoEu ==
    /\ UNCHANGED hw
    /\ UNCHANGED <<ret, laps>>
    /\ UNCHANGED waitLocals
    /\ UNCHANGED multiLocals
    /\ UNCHANGED hist

DmaReturn(val) ==
    /\ pc' = "done"
    /\ dma_ret' = val

(* idma_L2ToL1 / idma_L1ToL2: program the transfer and launch it with      *)
(* idma_mm_start_transfer_dir; the id read is the ticket                   *)
idma_mm_start_transfer_dir(is_l1_to_l2) ==
    /\ pc = "idle"
    /\ next_id[is_l1_to_l2] <= MaxTickets
    /\ op' = "idma_mm_start_transfer_dir"
    /\ in_flight' = [in_flight EXCEPT ![is_l1_to_l2] =
                        Append(in_flight[is_l1_to_l2], next_id[is_l1_to_l2])]
    /\ next_id' = [next_id EXCEPT ![is_l1_to_l2] = next_id[is_l1_to_l2] + 1]
    /\ DmaReturn(next_id[is_l1_to_l2])
    /\ UNCHANGED <<done_id, direction, transfer_id, timeout_left, done_id_axi2obi>>
    /\ UNCHANGED ext
    /\ NoEu

\* call of idma_mm_wait_for_completion(dir, id)
IdmaMmWaitForCompletion(dir, id) ==
    /\ pc = "idle"
    /\ op' = "idma_mm_wait_for_completion"
    /\ direction' = dir
    /\ transfer_id' = id
    /\ IF id = 0
         THEN /\ DmaReturn(0)
              /\ timeout_left' = 0
         ELSE /\ pc' = "mw_loop"
              /\ timeout_left' = MaxCompletionPolls
              /\ dma_ret' = 0
    /\ UNCHANGED done_id_axi2obi
    /\ UNCHANGED dmaHw
    /\ UNCHANGED ext
    /\ NoEu

\* mutant: the done-id is read and compared even when the channel is busy
idma_mm_wait_for_completion_loop_ignores_busy ==
    /\ pc = "mw_loop"
    /\ IF timeout_left > 0
         THEN /\ timeout_left' = timeout_left - 1
              /\ pc' = "mw_done_id"
              /\ dma_ret' = dma_ret
         ELSE /\ DmaReturn(0)
              /\ timeout_left' = 0
    /\ UNCHANGED <<direction, transfer_id, done_id_axi2obi>>
    /\ UNCHANGED dmaHw
    /\ UNCHANGED ext
    /\ UNCHANGED op
    /\ NoEu

(* idma_mm_wait_for_completion: while (timeout-- > 0) and the read of the  *)
(* status register                                                         *)
idma_mm_wait_for_completion_loop ==
    /\ pc = "mw_loop"
    /\ IF timeout_left > 0
         THEN /\ timeout_left' = timeout_left - 1
              /\ pc' = IF idma_mm_is_busy_dir(direction) THEN "mw_loop" ELSE "mw_done_id"
              /\ dma_ret' = dma_ret
         ELSE /\ DmaReturn(0)
              /\ timeout_left' = 0
    /\ UNCHANGED <<direction, transfer_id, done_id_axi2obi>>
    /\ UNCHANGED dmaHw
    /\ UNCHANGED ext
    /\ UNCHANGED op
    /\ NoEu

(* idma_mm_wait_for_completion: the channel was read not busy; read of the *)
(* done-id register and comparison with transfer_id                        *)
idma_mm_wait_for_completion_done_id ==
    /\ pc = "mw_done_id"
    /\ IF idma_mm_get_done_id_dir(direction) = transfer_id
         THEN DmaReturn(1)
         ELSE /\ pc' = "mw_loop"
              /\ dma_ret' = dma_ret
    /\ UNCHANGED <<direction, transfer_id, timeout_left, done_id_axi2obi>>
    /\ UNCHANGED dmaHw
    /\ UNCHANGED ext
    /\ UNCHANGED op
    /\ NoEu

\* call of idma_tx_cplt(id), alone or as the loop condition of dma_wait(id);
\* dir is the direction on which the caller was given the ticket
IdmaTxCplt(dir, id) ==
    /\ pc = "idle"
    /\ op' = "idma_tx_cplt"
    /\ pc' = "tx_a2o"
    /\ direction' = dir
    /\ transfer_id' = id
    /\ UNCHANGED <<timeout_left, done_id_axi2obi, dma_ret>>
    /\ UNCHANGED dmaHw
    /\ UNCHANGED ext
    /\ NoEu

DmaWait(dir, id) ==
    /\ pc = "idle"
    /\ op' = "dma_wait"
    /\ pc' = "tx_a2o"
    /\ direction' = dir
    /\ transfer_id' = id
    /\ UNCHANGED <<timeout_left, done_id_axi2obi, dma_ret>>
    /\ UNCHANGED dmaHw
    /\ UNCHANGED ext
    /\ NoEu

(* idma_tx_cplt: done_id_axi2obi = idma_mm_get_done_id_dir(0, 0) *)
idma_tx_cplt_axi2obi ==
    /\ pc = "tx_a2o"
    /\ done_id_axi2obi' = idma_mm_get_done_id_dir(IDMA_DIR_L2_TO_L1)
    /\ pc' = "tx_o2a"
    /\ UNCHANGED <<direction, transfer_id, timeout_left, dma_ret>>
    /\ UNCHANGED dmaHw
    /\ UNCHANGED ext
    /\ UNCHANGED op
    /\ NoEu

(* idma_tx_cplt: done_id_obi2axi = idma_mm_get_done_id_dir(1, 0) and the   *)
(* comparison of both with dma_tx_id; dma_wait: while (!idma_tx_cplt(id))  *)
idma_tx_cplt_obi2axi ==
    /\ pc = "tx_o2a"
    /\ LET done_id_obi2axi == idma_mm_get_done_id_dir(IDMA_DIR_L1_TO_L2)
           cplt == (done_id_axi2obi = transfer_id) \/ (done_id_obi2axi = transfer_id)
       IN  IF op = "dma_wait" /\ ~cplt
             THEN /\ pc' = "tx_a2o"
                  /\ dma_ret' = dma_ret
             ELSE DmaReturn(IF cplt THEN 1 ELSE 0)
    /\ UNCHANGED <<direction, transfer_id, timeout_left, done_id_axi2obi>>
    /\ UNCHANGED dmaHw
    /\ UNCHANGED ext
    /\ UNCHANGED op
    /\ NoEu

\* call of dma_barrier()
DmaBarrier ==
    /\ pc = "idle"
    /\ op' = "dma_barrier"
    /\ pc' = "bar_a2o"
    /\ UNCHANGED dmaLocals
    /\ UNCHANGED dmaHw
    /\ UNCHANGED ext
    /\ NoEu

(* dma_barrier: while (dma_status()), dma_status() being                   *)
(* idma_mm_is_busy_dir(0, 0) || idma_mm_is_busy_dir(1, 0)                  *)
dma_status_axi2obi ==
    /\ pc = "bar_a2o"
    /\ pc' = IF idma_mm_is_busy_dir(IDMA_DIR_L2_TO_L1) THEN "bar_a2o" ELSE "bar_o2a"
    /\ UNCHANGED dmaLocals
    /\ UNCHANGED dmaHw
    /\ UNCHANGED ext
    /\ UNCHANGED op
    /\ NoEu

dma_status_obi2axi ==
    /\ pc = "bar_o2a"
    /\ IF idma_mm_is_busy_dir(IDMA_DIR_L1_TO_L2)
         THEN /\ pc' = "bar_a2o"
              /\ dma_ret' = dma_ret
         ELSE DmaReturn(0)
    /\ UNCHANGED <<direction, transfer_id, timeout_left, done_id_axi2obi>>
    /\ UNCHANGED dmaHw
    /\ UNCHANGED ext
    /\ UNCHANGED op
    /\ NoEu

\* eu_idma_init(enable_irq)
EuIdmaInit(enable_irq) ==
    /\ pc = "idle"
    /\ StickyBuffer' = {}
    /\ eu_enable_events(EU_IDMA_ALL_MASK)
    /\ IF enable_irq
         THEN eu_enable_irq(EU_IDMA_ALL_DONE_MASK)
         ELSE UNCHANGED InterruptMask
    /\ op' = "eu_idma_init"
    /\ TopReturn({})
    /\ NoWait
    /\ NoMulti
    /\ UNCHANGED aux

IdmaWaitTimeout == MaxDirPolls * PollDelay

\* eu_idma_wait_direction_completion(dir, m), called to wait for the last
\* ticket handed out on that direction
EuIdmaWaitDirectionCompletion(dir, m) ==
    /\ pc = "idle"
    /\ Issued(dir, next_id[dir] - 1)
    /\ op' = "eu_idma_wait_direction_completion"
    /\ LET mask == IF dir = IDMA_DIR_L1_TO_L2
                     THEN EU_IDMA_O2A_DONE_MASK
                     ELSE EU_IDMA_A2O_DONE_MASK
       IN  eu_wait_events(mask, m, IdmaWaitTimeout)
    /\ IF m = EU_WAIT_MODE_WFE
         THEN UNCHANGED <<timeout_cycles, cycles>>
         ELSE TRUE
    /\ direction' = dir
    /\ transfer_id' = next_id[dir] - 1
    /\ ret' = {}
    /\ detected_events' = {}
    /\ NoMulti
    /\ UNCHANGED hw
    /\ UNCHANGED <<laps, timeout_left, done_id_axi2obi, dma_ret>>
    /\ UNCHANGED dmaHw
    /\ UNCHANGED ext

CallerResumesDma ==
    /\ pc = "done"
    /\ pc' = "idle"
    /\ op' = "none"
    /\ ret' = {}
    /\ NoWait
    /\ NoMulti
    /\ direction' = IDMA_DIR_L2_TO_L1
    /\ transfer_id' = 0
    /\ timeout_left' = 0
    /\ done_id_axi2obi' = 0
    /\ dma_ret' = 0
    /\ UNCHANGED hw
    /\ UNCHANGED laps
    /\ UNCHANGED dmaHw
    /\ UNCHANGED ext

(* The application launches transfers and waits for them; the thread keeps *)
(* running; the transfers complete when they complete, if ever.            *)
DmaCaller ==
    \/ CallerResumesDma
    \/ \E enable_irq \in BOOLEAN : EuIdmaInit(enable_irq)
    \/ \E mask \in {EU_ALL} : EuClearEvents(mask)
    \/ \E d \in Dirs : idma_mm_start_transfer_dir(d)
    \/ \E d \in Dirs, id \in 0 .. MaxTickets : IdmaMmWaitForCompletion(d, id)
    \/ \E d \in Dirs, id \in 1 .. MaxTickets : IdmaTxCplt(d, id)
    \/ \E d \in Dirs, id \in 1 .. MaxTickets : DmaWait(d, id)
    \/ DmaBarrier
    \/ \E d \in Dirs, m \in WaitModes : EuIdmaWaitDirectionCompletion(d, m)

DmaThread ==
    \/ idma_mm_wait_for_completion_loop
    \/ idma_mm_wait_for_completion_done_id
    \/ idma_tx_cplt_axi2obi
    \/ idma_tx_cplt_obi2axi
    \/ dma_status_axi2obi
    \/ dma_status_obi2axi
    \/ eu_wait_events_polling
    \/ eu_wait_events_wfe_check
    \/ eu_wait_events_wfe_arm
    \/ eu_wait_events_wfe_sleep
    \/ eu_wait_events_wfe_recheck

DmaHardware ==
    \E d \in Dirs : DmaComplete(d)

DmaNext ==
    \/ DmaCaller
    \/ DmaThread
    \/ DmaHardware

DmaSpec ==
    /\ Init
    /\ [][DmaNext]_vars
    /\ WF_vars(DmaThread)

----------------------------------------------------------------------------
(* The basic control functions, each one access to an event-unit register, *)
(* called in any order while the accelerators signal                      *)

RegMasks == {EU_IDMA_A2O_DONE_MASK, EU_IDMA_ALL_DONE_MASK,
             EU_IDMA_O2A_DONE_MASK \cup EU_REDMULE_DONE_MASK, EU_ALL}
RegIrqMasks == {EU_IDMA_A2O_DONE_MASK, EU_IDMA_ALL_DONE_MASK}

\* a call of the function name with argument mask, returning val
RegCall(name, mask, val) ==
    /\ pc = "idle"
    /\ calls < MaxCalls
    /\ calls' = calls + 1
    /\ op' = name
    /\ event_mask' = mask
    /\ ret' = val
    /\ prev_call' = [op |-> op, mask |-> event_mask, val |-> ret, before |-> hw,
                     after |-> hw']
    /\ UNCHANGED <<pc, timeout_cycles, cycles, detected_events>>
    /\ UNCHANGED multiLocals
    /\ UNCHANGED hist
    /\ UNCHANGED laps
    /\ UNCHANGED dmaHw
    /\ UNCHANGED dmaLocals
    /\ UNCHANGED fsyncHw
    /\ UNCHANGED fsyncLocals
    /\ UNCHANGED decoder

RegEuInit ==
    /\ StickyBuffer' = {}
    /\ EnabledMask' = {}
    /\ InterruptMask' = {}
    /\ RegCall("eu_init", EU_ALL, {})

RegEnableEvents(mask) ==
    /\ eu_enable_events(mask)
    /\ UNCHANGED <<StickyBuffer, InterruptMask>>
    /\ RegCall("eu_enable_events", mask, {})

RegDisableEvents(mask) ==
    /\ eu_disable_events(mask)
    /\ UNCHANGED <<StickyBuffer, InterruptMask>>
    /\ RegCall("eu_disable_events", mask, {})

RegEnableIrq(mask) ==
    /\ eu_enable_irq(mask)
    /\ UNCHANGED <<StickyBuffer, EnabledMask>>
    /\ RegCall("eu_enable_irq", mask, {})

RegDisableIrq(mask) ==
    /\ eu_disable_irq(mask)
    /\ UNCHANGED <<StickyBuffer, EnabledMask>>
    /\ RegCall("eu_disable_irq", mask, {})

RegClearEvents(mask) ==
    /\ eu_clear_events(mask)
    /\ UNCHANGED <<EnabledMask, InterruptMask>>
    /\ RegCall("eu_clear_events", mask, {})

RegGetEvents ==
    /\ UNCHANGED hw
    /\ RegCall("eu_get_events", {}, eu_get_events)

\* mutant: the read of the masked buffer clears what it returns
RegGetEventsMasked_clearing ==
    /\ StickyBuffer' = StickyBuffer \ eu_get_events_masked
    /\ UNCHANGED <<EnabledMask, InterruptMask>>
    /\ RegCall("eu_get_events_masked", {}, eu_get_events_masked)

RegGetEventsMasked ==
    /\ UNCHANGED hw
    /\ RegCall("eu_get_events_masked", {}, eu_get_events_masked)

RegGetEventsIrqMasked ==
    /\ UNCHANGED hw
    /\ RegCall("eu_get_events_irq_masked", {}, eu_get_events_irq_masked)

\* mutant: the peek returns the raw buffer under the mask
RegCheckEvents_raw(mask) ==
    /\ UNCHANGED hw
    /\ RegCall("eu_check_events", mask, eu_get_events \cap mask)

RegCheckEvents(mask) ==
    /\ UNCHANGED hw
    /\ RegCall("eu_check_events", mask, eu_check_events(mask))

RegCaller ==
    \/ RegEuInit
    \/ \E mask \in RegMasks : RegEnableEvents(mask)
    \/ \E mask \in RegMasks : RegDisableEvents(mask)
    \/ \E mask \in RegIrqMasks : RegEnableIrq(mask)
    \/ \E mask \in RegIrqMasks : RegDisableIrq(mask)
    \/ \E mask \in RegMasks : RegClearEvents(mask)
    \/ RegGetEvents
    \/ RegGetEventsMasked
    \/ RegGetEventsIrqMasked
    \/ \E mask \in RegMasks : RegCheckEvents(mask)

RegHardware ==
    \E b \in UsedBits : HwEvent(b)

RegNext ==
    \/ RegCaller
    \/ RegHardware

RegSpec == Init /\ [][RegNext]_vars

----------------------------------------------------------------------------
(* FractalSync: fsync_mm over the registers of obi_slave_fsync.  A step is *)
(* one clock cycle of the unit; the core makes at most one register access *)
(* per cycle, answered in the same cycle.                                  *)

FSYNC_MM_STATUS_BUSY_MASK == {2}

\* mutant: busy is reported in WAIT only
status_reg_busy_in_wait_only(error_o) ==
    (IF c_sync_state = WAIT THEN {2} ELSE {})
      \cup (IF error_o THEN {1} ELSE {})
      \cup (IF c_sync_state = DONE THEN {0} ELSE {})

\* status_reg: bit 0 = done, bit 1 = error, bit 2 = busy
status_reg(error_o) ==
    (IF c_sync_state = SYNC \/ c_sync_state = WAIT THEN {2} ELSE {})
      \cup (IF error_o THEN {1} ELSE {})
      \cup (IF c_sync_state = DONE THEN {0} ELSE {})

\* mutant: DONE is left only on a new trigger
n_sync_state_done_holds(sync_trigger, wake) ==
    CASE c_sync_state = IDLE -> IF sync_trigger THEN SYNC ELSE IDLE
      [] c_sync_state = SYNC -> WAIT
      [] c_sync_state = WAIT -> IF wake THEN DONE ELSE WAIT
      [] c_sync_state = DONE -> IF sync_trigger THEN IDLE ELSE DONE

\* sync_logic: the next state of the synchronization FSM
n_sync_state(sync_trigger, wake) ==
    CASE c_sync_state = IDLE -> IF sync_trigger THEN SYNC ELSE IDLE
      [] c_sync_state = SYNC -> WAIT
      [] c_sync_state = WAIT -> IF wake THEN DONE ELSE WAIT
      [] c_sync_state = DONE -> IDLE

\* sync_logic: done is 0 by default and 1 in DONE; done_o = done
done_o ==
    c_sync_state = DONE

\* sync_logic: every interface's sync is 0 by default
NoSync == [ht |-> FALSE, hn |-> FALSE, vt |-> FALSE, vn |-> FALSE]

\* mutant: a neighbour request also drives the tree interface of its axis
fsync_if_sync_neighbour_and_tree ==
    IF c_sync_state # SYNC
      THEN NoSync
      ELSE IF aggr_reg # 1
             THEN IF id_reg % 2 = 0
                    THEN [NoSync EXCEPT !.ht = TRUE]
                    ELSE [NoSync EXCEPT !.vt = TRUE]
             ELSE CASE id_reg % 4 = 0 -> [NoSync EXCEPT !.ht = TRUE]
                    [] id_reg % 4 = 1 -> [NoSync EXCEPT !.vt = TRUE]
                    [] id_reg % 4 = 2 -> [NoSync EXCEPT !.hn = TRUE, !.ht = TRUE]
                    [] id_reg % 4 = 3 -> [NoSync EXCEPT !.vn = TRUE, !.vt = TRUE]

\* sync_logic: the sync output of the four interfaces in this cycle
fsync_if_sync ==
    IF c_sync_state # SYNC
      THEN NoSync
      ELSE IF aggr_reg # 1
             THEN IF id_reg % 2 = 0
                    THEN [NoSync EXCEPT !.ht = TRUE]
                    ELSE [NoSync EXCEPT !.vt = TRUE]
             ELSE CASE id_reg % 4 = 0 -> [NoSync EXCEPT !.ht = TRUE]
                    [] id_reg % 4 = 1 -> [NoSync EXCEPT !.vt = TRUE]
                    [] id_reg % 4 = 2 -> [NoSync EXCEPT !.hn = TRUE]
                    [] id_reg % 4 = 3 -> [NoSync EXCEPT !.vn = TRUE]

\* sync_logic: the request driven in this cycle, as <<port, aggr, id_req>>
fsync_if_o ==
    IF c_sync_state # SYNC
      THEN <<"none", 0, 0>>
      ELSE IF aggr_reg # 1
             THEN IF id_reg % 2 = 0
                    THEN <<"ht", aggr_reg, id_reg>>
                    ELSE <<"vt", aggr_reg, id_reg>>
             ELSE CASE id_reg % 4 = 0 -> <<"ht", aggr_reg, id_reg>>
                    [] id_reg % 4 = 1 -> <<"vt", aggr_reg, id_reg>>
                    [] id_reg % 4 = 2 -> <<"hn", aggr_reg, id_reg>>
                    [] id_reg % 4 = 3 -> <<"vn", aggr_reg, id_reg>>

\* sync_state: the clock edge that ends the cycle
sync_state(sync_trigger, wake) ==
    /\ c_sync_state' = n_sync_state(sync_trigger, wake)
    /\ wake_seen' = IF sync_trigger /\ c_sync_state = IDLE
                       THEN FALSE
                       ELSE wake_seen \/ (c_sync_state = WAIT /\ wake)

\* what the barrier unit and fsync_mm leave alone
NoFsync ==
    /\ UNCHANGED hw
    /\ UNCHANGED <<ret, laps, calls, prev_call, STALLING>>
    /\ UNCHANGED waitLocals
    /\ UNCHANGED multiLocals
    /\ UNCHANGED hist
    /\ UNCHANGED dmaHw
    /\ UNCHANGED dmaLocals
    /\ UNCHANGED decoder

\* call of fsync_mm(id, aggregate)
FsyncMm(i, a) ==
    /\ pc = "idle"
    /\ op' = "fsync_mm"
    /\ pc' = "fs_aggr"
    /\ sync_id' = i
    /\ aggregate' = a
    /\ status' = {}
    /\ UNCHANGED fsyncHw
    /\ UNCHANGED wake_seen
    /\ NoFsync

\* fsync_base[FSYNC_MM_AGGR_REG_OFFSET/4] = aggregate
fsync_mm_aggr ==
    /\ pc = "fs_aggr"
    /\ aggr_reg' = aggregate
    /\ pc' = "fs_id"
    /\ \E wake \in BOOLEAN : sync_state(FALSE, wake)
    /\ UNCHANGED <<op, id_reg, sync_id, aggregate, status>>
    /\ NoFsync

\* fsync_base[FSYNC_MM_ID_REG_OFFSET/4] = id
fsync_mm_id ==
    /\ pc = "fs_id"
    /\ id_reg' = sync_id
    /\ pc' = "fs_control"
    /\ \E wake \in BOOLEAN : sync_state(FALSE, wake)
    /\ UNCHANGED <<op, aggr_reg, sync_id, aggregate, status>>
    /\ NoFsync

\* fsync_base[FSYNC_MM_CONTROL_REG_OFFSET/4] = 1: sync_trigger in this cycle
fsync_mm_control ==
    /\ pc = "fs_control"
    /\ pc' = IF STALLING THEN "fs_status" ELSE "done"
    /\ \E wake \in BOOLEAN : sync_state(TRUE, wake)
    /\ UNCHANGED <<op, aggr_reg, id_reg, sync_id, aggregate, status>>
    /\ NoFsync

\* do { status = fsync_base[FSYNC_MM_STATUS_REG_OFFSET/4]; } while (status & BUSY)
fsync_mm_status ==
    /\ pc = "fs_status"
    /\ \E error_o \in BOOLEAN :
          /\ status' = status_reg(error_o)
          /\ pc' = IF status_reg(error_o) \cap FSYNC_MM_STATUS_BUSY_MASK # {}
                     THEN "fs_status"
                     ELSE "done"
    /\ \E wake \in BOOLEAN : sync_state(FALSE, wake)
    /\ UNCHANGED <<op, aggr_reg, id_reg, sync_id, aggregate>>
    /\ NoFsync

\* a cycle in which the core makes no access to the unit
FsyncClock ==
    /\ \E wake \in BOOLEAN : sync_state(FALSE, wake)
    /\ c_sync_state' # c_sync_state
    /\ UNCHANGED <<pc, op, aggr_reg, id_reg, sync_id, aggregate, status>>
    /\ NoFsync

CallerResumesFsync ==
    /\ pc = "done"
    /\ pc' = "idle"
    /\ op' = "none"
    /\ sync_id' = 0
    /\ aggregate' = 0
    /\ status' = {}
    /\ UNCHANGED fsyncHw
    /\ UNCHANGED wake_seen
    /\ NoFsync

FsyncInit ==
    /\ Reset
    /\ STALLING \in BOOLEAN
    /\ idma_base = IDMA_BASE

FsyncNext ==
    \/ \E i \in SyncIds, a \in SyncAggregates : FsyncMm(i, a)
    \/ fsync_mm_aggr
    \/ fsync_mm_id
    \/ fsync_mm_control
    \/ fsync_mm_status
    \/ FsyncClock
    \/ CallerResumesFsync

FsyncSpec == FsyncInit /\ [][FsyncNext]_vars

----------------------------------------------------------------------------
(* The transfer helpers idma_mv_in / idma_mv_out (and their _pure_eu       *)
(* versions): launch the transfer, eu_clear_events(0xFFFFFFFF),            *)
(* eu_enable_events(done mask of the direction), wait for the done event   *)

\* idma_L2ToL1 / idma_L1ToL2 at the head of the helper; USE_WFE selects the mode
IdmaMv(dir, use_wfe) ==
    /\ pc = "idle"
    /\ next_id[dir] <= MaxTickets
    /\ op' = "idma_mv"
    /\ pc' = "mv_clear"
    /\ in_flight' = [in_flight EXCEPT ![dir] = Append(in_flight[dir], next_id[dir])]
    /\ next_id' = [next_id EXCEPT ![dir] = next_id[dir] + 1]
    /\ direction' = dir
    /\ transfer_id' = next_id[dir]
    /\ mode' = IF use_wfe THEN EU_WAIT_MODE_WFE ELSE EU_WAIT_MODE_POLLING
    /\ UNCHANGED <<done_id, timeout_left, done_id_axi2obi, dma_ret>>
    /\ UNCHANGED <<required_mask, accumulated_events, wa_cycles>>
    /\ UNCHANGED <<ret, laps>>
    /\ UNCHANGED hw
    /\ UNCHANGED waitLocals
    /\ UNCHANGED hist
    /\ UNCHANGED ext

\* eu_clear_events(0xFFFFFFFF)
idma_mv_clear ==
    /\ pc = "mv_clear"
    /\ eu_clear_events(EU_ALL)
    /\ pc' = "mv_enable"
    /\ UNCHANGED <<EnabledMask, InterruptMask, op, ret>>
    /\ UNCHANGED waitLocals
    /\ UNCHANGED multiLocals
    /\ UNCHANGED hist
    /\ UNCHANGED aux

\* eu_enable_events(done mask) and the call of eu_idma_wait_a2o_completion /
\* eu_idma_wait_o2a_completion / eu_idma_wait_direction_completion
idma_mv_enable ==
    /\ pc = "mv_enable"
    /\ eu_enable_events({DoneBit(direction)})
    /\ LET enabled == EnabledMask \cup {DoneBit(direction)}
           pending == (StickyBuffer \cap enabled) \cap {DoneBit(direction)}
       IN  IF mode = EU_WAIT_MODE_WFE
             THEN /\ pc' = "wfe_check"
                  /\ UNCHANGED <<timeout_cycles, cycles>>
                  /\ preset' = (pending # {})
             ELSE /\ pc' = "poll"
                  /\ timeout_cycles' = IdmaWaitTimeout
                  /\ cycles' = 0
                  /\ preset' = (pending # {})
    /\ event_mask' = {DoneBit(direction)}
    /\ window' = {}
    /\ UNCHANGED <<StickyBuffer, InterruptMask, op, ret, detected_events, signalled>>
    /\ UNCHANGED multiLocals
    /\ UNCHANGED aux

HelperCaller ==
    \/ CallerResumesDma
    \/ \E d \in Dirs, use_wfe \in BOOLEAN : IdmaMv(d, use_wfe)

HelperThread ==
    \/ idma_mv_clear
    \/ idma_mv_enable
    \/ eu_wait_events_polling
    \/ eu_wait_events_wfe_check
    \/ eu_wait_events_wfe_arm
    \/ eu_wait_events_wfe_sleep
    \/ eu_wait_events_wfe_recheck

HelperNext ==
    \/ HelperCaller
    \/ HelperThread
    \/ DmaHardware

HelperSpec == Init /\ [][HelperNext]_vars

----------------------------------------------------------------------------
(* Properties *)

WfePcs == {"wfe_check", "wfe_arm", "wfe_sleep", "wfe_recheck"}

\* the current or last wait is an eu_wait_events_wfe
InWfeWait ==
    \/ op = "eu_wait_events_wfe"
    \/ op = "wait_all" /\ mode = EU_WAIT_MODE_WFE

\* C1: when an awaited bit is already set in the buffer and enabled at the call
\* of eu_wait_events_wfe, the call never reaches the WFE instruction and
\* returns a nonzero value.
C1_PresetNeverSleeps ==
    (InWfeWait /\ preset) =>
        /\ pc \notin {"wfe_arm", "wfe_sleep", "wfe_recheck"}
        /\ pc # "wfe_check" => detected_events # {}
        /\ (op = "eu_wait_events_wfe" /\ pc = "done") => ret # {}

C1_Witness ==
    /\ op = "eu_wait_events_wfe"
    /\ pc = "done"
    /\ preset
    /\ ret # {}

\* C2: an awaited enabled bit that the hardware sets between the first check
\* and the WFE instruction is not lost: the wake-up of the WFE is enabled
\* (the core does not stay suspended) and the value returned contains the bit.
C2_NoLostWakeup ==
    /\ (pc = "wfe_sleep" /\ window # {}) => ENABLED eu_wait_events_wfe_sleep
    /\ (InWfeWait /\ pc \notin {"wfe_arm", "wfe_sleep", "wfe_recheck"})
          => window \subseteq detected_events
    /\ (op = "eu_wait_events_wfe" /\ pc = "done") => window \subseteq ret

C2_Witness ==
    /\ op = "eu_wait_events_wfe"
    /\ pc = "done"
    /\ ~preset
    /\ window # {}
    /\ window \subseteq ret

----------------------------------------------------------------------------
(* eu_multi_wait_all *)

InPollAll ==
    op = "wait_all" /\ mode = EU_WAIT_MODE_POLLING

\* what the call has on record as signalled: accumulated_events in the WFE
\* branch, the detected_events of the iteration in the polling branch
Recorded ==
    IF mode = EU_WAIT_MODE_WFE
      THEN accumulated_events \cap required_mask
      ELSE detected_events \cap required_mask

AllObserved ==
    required_mask \subseteq Recorded

\* C3: when every required source is enabled, eu_multi_wait_all in WFE mode
\* eventually returns a value containing every required done bit, whatever
\* the order and the instants at which the sources complete.
C3_WaitAllWfeReturnsAll ==
    (op = "wait_all" /\ mode = EU_WAIT_MODE_WFE /\ pc # "done"
       /\ required_mask \subseteq EnabledMask)
      ~> (op = "wait_all" /\ pc = "done" /\ ret = required_mask)

C3_Witness ==
    /\ op = "wait_all"
    /\ mode = EU_WAIT_MODE_WFE
    /\ pc = "done"
    /\ ret = DoneBits
    /\ ~preset
    /\ signalled = DoneBits

\* C4: a polling wait-all on two or more required sources whose done bits all
\* arrive early in the budget (within its first iteration, at any instants)
\* returns the full required mask.
C4_PollingWaitAllReturnsAll ==
    (InPollAll /\ pc = "done" /\ Cardinality(required_mask) >= 2
       /\ signalled = required_mask)
        => ret = required_mask

\* C5: inside the wait loop of eu_multi_wait_all no required bit is cleared
\* from the buffer before all required sources have been observed.
C5_NoClearBeforeAllObserved ==
    [][(op = "wait_all" /\ pc # "done" /\ ~AllObserved)
          => (StickyBuffer \cap required_mask) \subseteq StickyBuffer']_vars

\* C6: during a wait-all call the recorded set never loses a member, and a
\* nonzero return value contains the whole required mask.
C6_RecordedMonotone ==
    /\ [][(op = "wait_all" /\ op' = "wait_all" /\ pc # "done")
             => Recorded \subseteq Recorded']_vars
    /\ []((op = "wait_all" /\ pc = "done" /\ ret # {})
             => (ret \cap required_mask) = required_mask)

\* C7: a successful return of eu_multi_wait_all leaves no required bit
\* pending: eu_check_events(required_mask) is 0 right after it.
C7_SuccessLeavesNothingPending ==
    [][(op = "wait_all" /\ pc # "done" /\ pc' = "done" /\ ret' # {})
          => (StickyBuffer' \cap EnabledMask' \cap required_mask) = {}]_vars

\* progress measure of the polling wait-all: it grows with every step of the
\* thread and is bounded by PollBound
PollStepsPerIter == 3 + MultiIterTimeout \div PollDelay
PollBound == MaxOuterIters * PollStepsPerIter + 1
PollMeasure ==
    IF pc = "done"
      THEN PollBound
      ELSE (wa_cycles \div MultiIterTimeout) * PollStepsPerIter
             + (CASE pc = "wp_loop" -> 0
                  [] pc = "poll" -> 1 + cycles \div PollDelay
                  [] OTHER -> PollStepsPerIter - 1)

\* C8: the polling wait-all terminates: its budget counter advances by one
\* iteration timeout per outer iteration up to the budget and no further,
\* every step of the thread increases a bounded measure, and a 0 return on a
\* nonempty required mask happens exactly at the exhausted budget.
C8_PollingWaitAllTerminates ==
    /\ [](InPollAll =>
            /\ wa_cycles \in {k * MultiIterTimeout : k \in 0 .. MaxOuterIters}
            /\ PollMeasure <= PollBound)
    /\ []((InPollAll /\ pc = "done" /\ required_mask # {} /\ ret = {})
            => wa_cycles = MultiTimeoutCycles)
    /\ [][(InPollAll /\ pc = "wp_loop" /\ wa_cycles = MultiTimeoutCycles /\ pc' # pc)
            => (pc' = "done" /\ ret' = {})]_vars
    /\ [][(InPollAll /\ pc # "done" /\ <<pc, cycles, wa_cycles>>' # <<pc, cycles, wa_cycles>>)
            => PollMeasure' > PollMeasure]_vars

C8_Witness ==
    /\ InPollAll
    /\ pc = "done"
    /\ Cardinality(required_mask) >= 2
    /\ signalled # {}
    /\ ret = {}
    /\ wa_cycles = MultiTimeoutCycles

----------------------------------------------------------------------------
(* eu_wait_events_polling and eu_wait_events_wfe: the effect on the buffer *)

\* C9 as stated: on detection eu_wait_events_polling clears exactly the
\* detected bits from the buffer and returns them.
C9_PollingClearsDetected ==
    [][(pc = "poll" /\ pc' # "poll" /\ detected_events' # {})
          => StickyBuffer' = StickyBuffer \ detected_events']_vars

\* C9 amended: on detection eu_wait_events_polling returns the detected bits
\* (the enabled buffer bits of the mask) and leaves the whole buffer as it was.
C9_PollingReturnsDetectedNoClear ==
    [][(pc = "poll" /\ pc' # "poll" /\ eu_check_events(event_mask) # {})
          => /\ detected_events' = eu_check_events(event_mask)
             /\ StickyBuffer' = StickyBuffer
             /\ op = "eu_wait_events_polling" => (pc' = "done" /\ ret' = detected_events')]_vars

C9_Witness ==
    /\ op = "eu_wait_events_polling"
    /\ pc = "done"
    /\ ret # {}
    /\ ret \subseteq StickyBuffer
    /\ StickyBuffer \ ret # {}

----------------------------------------------------------------------------
(* eu_wait_events_polling: the timeout *)

\* the cycles elapsed in the call, laps * 2^32 + cycles, are at most
\* timeout_cycles + n
ElapsedWithin(n) ==
    \/ /\ laps = 0
       /\ \/ Lt32(cycles, timeout_cycles)
          \/ \E k \in 0 .. n : ~Carry32(timeout_cycles, k)
                                /\ Add32(timeout_cycles, k) = cycles
    \/ /\ laps = 1
       /\ \E k \in 1 .. n : Carry32(timeout_cycles, k)
                             /\ Add32(timeout_cycles, k) = cycles

\* C11: eu_wait_events_polling(mask, T) with T > 0 and no awaited enabled bit
\* ever set returns 0 with its elapsed-cycle counter advanced by at most T
\* plus one per-iteration delay: the call is never still polling, and never
\* returns, with more than T + 10 cycles elapsed.
C11_PollingTimeoutBound ==
    (op = "eu_wait_events_polling" /\ timeout_cycles # Zero32)
        => /\ ElapsedWithin(PollDelay)
           /\ pc = "done" => ret = {}

\* C12: eu_wait_events_polling returns 0 only on timeout: the returning poll
\* and, since a poll that finds an awaited bit returns it at once, every poll
\* before it found nothing, timeout_cycles is nonzero and the counter has
\* reached it; with timeout_cycles = 0 the call returns only what it detected.
C12_ZeroOnlyOnTimeout ==
    /\ [][(pc = "poll" /\ pc' # "poll" /\ detected_events' = {})
             => /\ timeout_cycles > 0
                /\ eu_check_events(event_mask) = {}
                /\ cycles' = cycles + PollDelay
                /\ cycles' >= timeout_cycles]_vars
    /\ [][(pc = "poll" /\ eu_check_events(event_mask) # {}
               /\ <<pc, cycles>>' # <<pc, cycles>>)
             => (pc' # "poll" /\ detected_events' = eu_check_events(event_mask))]_vars
    /\ [][(pc = "poll" /\ timeout_cycles = 0 /\ pc' # "poll")
             => detected_events' # {}]_vars
    /\ [][(pc = "poll" /\ op = "eu_wait_events_polling" /\ pc' # "poll")
             => ret' = detected_events']_vars

C12_Witness ==
    /\ op = "eu_wait_events_polling"
    /\ pc = "done"
    /\ ret = {}
    /\ cycles >= PollDelay
    /\ eu_check_events(UsedBits) # {}

----------------------------------------------------------------------------
(* iDMA tickets *)

\* the completion check of the running iDMA function comes out true
TicketReportedDone ==
    /\ pc = "done"
    /\ \/ op = "idma_mm_wait_for_completion" /\ dma_ret = 1
       \/ op = "idma_tx_cplt" /\ dma_ret = 1
       \/ op = "dma_wait"

\* two tickets were handed out on direction d and only the first has completed
OnlyFirstDone(d) ==
    /\ next_id[d] = 3
    /\ done_id[d] = 1
    /\ in_flight[d] = <<2>>

\* C13: a completion wait built on the event unit reports success for the
\* ticket it waits for (the last one handed out on the direction) only when
\* that ticket is complete: its direction idle and done-id equal to its id.
C13_EventWaitRevalidatesTicket ==
    (op = "eu_idma_wait_direction_completion" /\ pc = "done" /\ ret # {})
        => IsComplete(direction, transfer_id)

\* C14: idma_mm_wait_for_completion returns 1 only from the iteration that
\* read the ticket's direction not busy and then its done-id equal to the id;
\* an iteration that reads the channel busy, or an idle channel with another
\* done-id, goes on polling.
C14_CompletionNeedsIdleAndOwnId ==
    /\ [](pc = "mw_done_id" => ~idma_mm_is_busy_dir(direction))
    /\ [][(op = "idma_mm_wait_for_completion" /\ pc # "done" /\ pc' = "done"
             /\ dma_ret' = 1)
            => /\ pc = "mw_done_id"
               /\ transfer_id # 0
               /\ IsComplete(direction, transfer_id)]_vars
    /\ [][(pc = "mw_loop" /\ timeout_left > 0 /\ idma_mm_is_busy_dir(direction)
             /\ timeout_left' # timeout_left)
            => (pc' = "mw_loop" /\ dma_ret' = dma_ret)]_vars
    /\ [][(pc = "mw_done_id" /\ done_id[direction] # transfer_id /\ pc' # pc)
            => (pc' = "mw_loop" /\ dma_ret' = dma_ret)]_vars

C14_Witness ==
    /\ op = "idma_mm_wait_for_completion"
    /\ pc = "done"
    /\ dma_ret = 1
    /\ timeout_left < MaxCompletionPolls - 1

\* C15: dma_wait / idma_tx_cplt take a ticket handed out on a direction as
\* Done only when that direction is idle and its done-id equals the id.
C15_DoneNeedsIdleOwnChannel ==
    (TicketReportedDone /\ op \in {"dma_wait", "idma_tx_cplt"}
       /\ Issued(direction, transfer_id))
        => IsComplete(direction, transfer_id)

\* C16: with two tickets handed out back to back on a direction and only the
\* first completed, a completion check of ticket 1 comes out true (the poll of
\* idma_mm_wait_for_completion goes on to the done-id comparison), and no
\* check of ticket 2 comes out true before the done-id shows 2.
C16_FirstDoneSecondNot ==
    /\ [][(op = "idma_mm_wait_for_completion" /\ pc = "mw_loop" /\ timeout_left > 0
             /\ transfer_id = 1 /\ OnlyFirstDone(direction)
             /\ timeout_left' # timeout_left)
            => pc' = "mw_done_id"]_vars
    /\ []((TicketReportedDone /\ transfer_id = 2 /\ Issued(direction, 2))
            => done_id[direction] = 2)

\* C17: a completion check of a ticket handed out on a direction never comes
\* out true before the done-id of that direction has reached the ticket's id.
C17_NeverDoneBeforeOwnDoneId ==
    (TicketReportedDone /\ Issued(direction, transfer_id))
        => done_id[direction] >= transfer_id

\* C18: every wait of the core outside the WFE instruction returns after
\* boundedly many iterations whatever the hardware does: the polling waits,
\* idma_mm_wait_for_completion, dma_wait and dma_barrier.
C18_WaitsOutsideWfeReturn ==
    (/\ pc \in {"poll", "mw_loop", "mw_done_id", "tx_a2o", "tx_o2a", "bar_a2o", "bar_o2a"}
     /\ op = "dma_wait" => Issued(direction, transfer_id))
        ~> (pc = "done")

\* C19 as stated: eu_enable_irq(mask) precedes the first eu_check_events(mask),
\* so the mask is armed when the first check is made and after every call,
\* the call that returns at once on a pending event included.
C19_ArmedBeforeFirstCheck ==
    /\ [](pc = "wfe_check" => event_mask \subseteq InterruptMask)
    /\ [][(pc \in {"wfe_check", "wfe_recheck"} /\ pc' \notin WfePcs)
             => event_mask \subseteq InterruptMask']_vars

\* C19 amended: the first check is made on the mask as the caller left it and
\* changes no register, so a call that returns at once leaves InterruptMask
\* as it was; eu_enable_irq(mask) follows an empty first check, and from the
\* WFE on InterruptMask contains mask.
C19_ArmedAfterEmptyFirstCheck ==
    /\ [][(pc = "wfe_check" /\ pc' # pc) => InterruptMask' = InterruptMask]_vars
    /\ [][(pc = "wfe_arm" /\ pc' # pc)
             => InterruptMask' = InterruptMask \cup event_mask]_vars
    /\ [](pc \in {"wfe_sleep", "wfe_recheck"} => event_mask \subseteq InterruptMask)
    /\ [][(pc = "wfe_recheck" /\ pc' # pc) => event_mask \subseteq InterruptMask']_vars

\* eu_wait_events_wfe has returned at once on a pending event and part of the
\* mask it returned is not armed
C19_Witness ==
    /\ op = "eu_wait_events_wfe"
    /\ pc = "done"
    /\ preset
    /\ ret # {}
    /\ ~(ret \subseteq InterruptMask)

\* C20: a wake-up that finds no awaited enabled bit makes eu_wait_events_wfe
\* return 0 with StickyBuffer and EnabledMask unchanged; in the WFE branch of
\* eu_multi_wait_all the accumulated set is then unchanged and the loop calls
\* the wait again on the same missing events, without returning.
C20_SpuriousWakeReturnsZeroAndRetries ==
    /\ [][(pc = "wfe_recheck" /\ pc' # pc /\ eu_check_events(event_mask) = {})
             => /\ detected_events' = {}
                /\ StickyBuffer' = StickyBuffer
                /\ EnabledMask' = EnabledMask
                /\ op # "wait_all" => (pc' = "done" /\ ret' = {})
                /\ op = "wait_all"
                     => /\ pc' = "wa_loop"
                        /\ accumulated_events' = accumulated_events
                        /\ event_mask = required_mask \ accumulated_events
                        /\ (accumulated_events \cap required_mask) # required_mask]_vars
    /\ [][(pc = "wa_loop" /\ pc' # pc
             /\ (accumulated_events \cap required_mask) # required_mask)
             => /\ pc' = "wfe_check"
                /\ event_mask' = required_mask \ accumulated_events
                /\ accumulated_events' = accumulated_events
                /\ StickyBuffer' = StickyBuffer]_vars

\* the wait has been issued again by eu_multi_wait_all after a wake-up that
\* found nothing, with part of the required events already accumulated
C20_Witness ==
    /\ op = "wait_all"
    /\ mode = EU_WAIT_MODE_WFE
    /\ pc = "wfe_check"
    /\ accumulated_events # {}
    /\ detected_events = {}
    /\ event_mask = required_mask \ accumulated_events
    /\ StickyBuffer \cap InterruptMask # {}

\* a step of the caller: one call of a basic control function
IsRegCall ==
    calls' # calls

C22_ClearExactAndCheckZero ==
    /\ [][(IsRegCall /\ op' = "eu_clear_events")
             => /\ StickyBuffer' = StickyBuffer \ event_mask'
                /\ EnabledMask' = EnabledMask
                /\ InterruptMask' = InterruptMask]_vars
    /\ [][IsRegCall => StickyBuffer' \subseteq StickyBuffer]_vars
    /\ [][(IsRegCall /\ op' = "eu_check_events" /\ op = "eu_clear_events"
             /\ event_mask' \subseteq event_mask /\ prev_call.after = hw)
             => ret' = {}]_vars

\* a clear has removed a set bit of its mask and left another set bit alone
C22_Witness ==
    /\ op = "eu_clear_events"
    /\ prev_call.before[1] \cap event_mask # {}
    /\ prev_call.before[1] \ event_mask # {}
    /\ StickyBuffer = prev_call.before[1] \ event_mask
    /\ EnabledMask # {}

\* C23: eu_check_events(mask) returns StickyBuffer AND EnabledMask AND mask
\* and changes no register; a second call with the same mask, the registers
\* being as the first call left them, returns the same value.
C23_CheckIsPurePeek ==
    /\ [][(IsRegCall /\ op' = "eu_check_events")
             => /\ ret' = (StickyBuffer \cap EnabledMask) \cap event_mask'
                /\ StickyBuffer' = StickyBuffer
                /\ EnabledMask' = EnabledMask
                /\ InterruptMask' = InterruptMask]_vars
    /\ [][(IsRegCall /\ op' = "eu_check_events" /\ op = "eu_check_events"
             /\ event_mask' = event_mask /\ prev_call.after = hw)
             => ret' = ret]_vars

\* two consecutive peeks with the same mask have returned the same non-zero
\* value, smaller than the raw buffer under the mask
C23_Witness ==
    /\ op = "eu_check_events"
    /\ prev_call.op = "eu_check_events"
    /\ prev_call.mask = event_mask
    /\ prev_call.val = ret
    /\ prev_call.before = hw
    /\ ret # {}
    /\ ret # StickyBuffer \cap event_mask

\* C24: eu_enable_events(m) sets EnabledMask to EnabledMask OR m and
\* eu_disable_events(m) to EnabledMask AND NOT m; neither changes
\* InterruptMask or StickyBuffer, and a second application changes nothing.
C24_EnableDisableIdempotent ==
    /\ [][(IsRegCall /\ op' = "eu_enable_events")
             => /\ EnabledMask' = EnabledMask \cup event_mask'
                /\ InterruptMask' = InterruptMask
                /\ StickyBuffer' = StickyBuffer]_vars
    /\ [][(IsRegCall /\ op' = "eu_disable_events")
             => /\ EnabledMask' = EnabledMask \ event_mask'
                /\ InterruptMask' = InterruptMask
                /\ StickyBuffer' = StickyBuffer]_vars
    /\ [][(IsRegCall /\ op' = op /\ event_mask' = event_mask
             /\ op \in {"eu_enable_events", "eu_disable_events"}
             /\ prev_call.after = hw)
             => hw' = hw]_vars

\* eu_disable_events has been applied twice with the same mask: the first
\* application removed enabled bits and left others, the second changed nothing
C24_Witness ==
    /\ op = "eu_disable_events"
    /\ prev_call.op = "eu_disable_events"
    /\ prev_call.mask = event_mask
    /\ prev_call.before = prev_call.after
    /\ EnabledMask \cap event_mask = {}
    /\ EnabledMask # {}
    /\ StickyBuffer # {}

\* C25 as stated: a write to the control register, in whatever state the FSM
\* is, starts an aggregation (the FSM enters SYNC) with the aggregate and id
\* parameters written before it.
C25_ControlWriteStartsAggregation ==
    [][(pc = "fs_control" /\ pc' # pc)
         => /\ c_sync_state' = SYNC
            /\ aggr_reg' = aggregate
            /\ id_reg' = sync_id]_vars

StatusBusy == 2 \in status
StatusDone == 0 \in status

C26_HelperCompletionNeverLost ==
    [][(/\ op = "idma_mv"
        /\ pc \in {"poll", "wfe_check", "wfe_recheck"}
        /\ pc' = "done"
        /\ IsComplete(direction, transfer_id))
         => ret' # {}]_vars

\* C27: the two branches of eu_multi_wait_all differ.  The WFE branch clears
\* nothing before it returns and returns the full required mask; the polling
\* branch clears each partial detection at the end of its iteration and
\* returns either a detection that holds the full mask or 0.  (The witness
\* is an arrival, once each and early in the budget, after which the polling
\* branch has returned less than the required mask.)
C27_BranchesDiffer ==
    /\ []((op = "wait_all" /\ mode = EU_WAIT_MODE_WFE /\ pc = "done")
            => ret = required_mask)
    /\ [][(op = "wait_all" /\ mode = EU_WAIT_MODE_WFE /\ pc # "done" /\ pc' # "done")
            => StickyBuffer \subseteq StickyBuffer']_vars
    /\ [][(InPollAll /\ pc = "wp_test" /\ pc' = "wp_loop")
            => /\ (detected_events \cap required_mask) # required_mask
               /\ StickyBuffer' = StickyBuffer \ detected_events]_vars
    /\ []((InPollAll /\ pc = "done")
            => (ret = {} \/ (ret \cap required_mask) = required_mask))

\* every required source has signalled once, early in the call, and the
\* polling branch has returned 0 after clearing a partial detection
C27_Witness ==
    /\ InPollAll
    /\ pc = "done"
    /\ Cardinality(required_mask) >= 2
    /\ signalled = required_mask
    /\ required_mask \subseteq EnabledMask
    /\ ret # required_mask
    /\ StickyBuffer \cap required_mask # required_mask


----------------------------------------------------------------------------
(* eu_wait_events with its three modes                                      *)

EU_WAIT_MODE_IRQ == "IRQ"
AllWaitModes == WaitModes \cup {EU_WAIT_MODE_IRQ}

(* A read of EU_CORE_EVENT_WAIT / EU_CORE_EVENT_WAIT_CLEAR stalls the core  *)
(* until the event unit has an event for it: a pending enabled event, or a  *)
(* pending event armed in the IRQ mask.                                     *)
EventWaitCondition ==
    eu_get_events_masked # {} \/ WakeCondition

EuWaitEvents(mask, m, timeout) ==
    /\ pc = "idle"
    /\ IF m = EU_WAIT_MODE_IRQ
         THEN /\ pc' = "irq_enable"
              /\ event_mask' = mask
              /\ timeout_cycles' = timeout
              /\ cycles' = 0
              /\ preset' = (eu_check_events(mask) # {})
              /\ window' = {}
         ELSE /\ eu_wait_events(mask, m, timeout)
              /\ IF m = EU_WAIT_MODE_WFE
                   THEN timeout_cycles' = 0 /\ cycles' = 0
                   ELSE TRUE
    /\ detected_events' = {}
    /\ op' = "eu_wait_events"
    /\ ret' = {}
    /\ mode' = m
    /\ required_mask' = {}
    /\ accumulated_events' = {}
    /\ wa_cycles' = 0
    /\ signalled' = {}
    /\ UNCHANGED hw
    /\ UNCHANGED aux

\* case EU_WAIT_MODE_IRQ: eu_enable_irq(event_mask)
eu_wait_events_irq ==
    /\ pc = "irq_enable"
    /\ eu_enable_irq(event_mask)
    /\ pc' = "irq_wait"
    /\ UNCHANGED <<StickyBuffer, EnabledMask, op, ret>>
    /\ UNCHANGED waitLocals
    /\ UNCHANGED multiLocals
    /\ UNCHANGED hist
    /\ UNCHANGED aux

(* The value read is the event buffer; whether the register applies the     *)
(* event mask to it is decided by the hardware, so both values can be read. *)
(* With clear_after_wait the bits read are cleared from the buffer.         *)
eu_wait_events_builtin(clear_after_wait) ==
    /\ pc = "irq_wait"
    /\ EventWaitCondition
    /\ \E v \in {eu_get_events, eu_get_events_masked} :
         /\ StickyBuffer' = IF clear_after_wait THEN StickyBuffer \ v ELSE StickyBuffer
         /\ WaitReturn(v)
    /\ cycles' = cycles
    /\ UNCHANGED <<EnabledMask, InterruptMask, op, required_mask, mode, wa_cycles>>
    /\ UNCHANGED hist
    /\ UNCHANGED aux

ModeCaller ==
    \/ CallerResumes
    \/ EuInit
    \/ \E mask \in InitMasks : EuEnableEvents(mask)
    \/ \E mask \in WaitMasks, m \in AllWaitModes, timeout \in Timeouts :
         EuWaitEvents(mask, m, timeout)

ModeThread ==
    \/ eu_wait_events_polling
    \/ eu_wait_events_wfe_check
    \/ eu_wait_events_wfe_arm
    \/ eu_wait_events_wfe_sleep
    \/ eu_wait_events_wfe_recheck
    \/ eu_wait_events_irq
    \/ eu_wait_events_builtin(TRUE)

ModeNext ==
    \/ ModeCaller
    \/ ModeThread
    \/ Hardware

ModeSpec == Init /\ [][ModeNext]_vars

----------------------------------------------------------------------------
(* eu_multi_wait_any                                                        *)

\* the 1M cycle timeout of eu_multi_wait_any, in polls
MultiAnyTimeout == MaxDirPolls * PollDelay

\* mutant: the selected bits are cleared from the buffer before the wait
EuMultiWaitAny_clears_first(wait_redmule, wait_idma_a2o, wait_idma_o2a, wait_fsync, m) ==
    /\ pc = "idle"
    /\ LET selected == RequiredMask(wait_redmule, wait_idma_a2o,
                                     wait_idma_o2a, wait_fsync)
       IN  /\ eu_wait_events(selected, m, MultiAnyTimeout)
           /\ required_mask' = selected
    /\ IF m = EU_WAIT_MODE_WFE
         THEN timeout_cycles' = 0 /\ cycles' = 0
         ELSE TRUE
    /\ detected_events' = {}
    /\ op' = "eu_multi_wait_any"
    /\ ret' = {}
    /\ mode' = m
    /\ accumulated_events' = {}
    /\ wa_cycles' = 0
    /\ signalled' = {}
    /\ UNCHANGED prev_call
    /\ StickyBuffer' = StickyBuffer \ RequiredMask(wait_redmule, wait_idma_a2o,
                                                    wait_idma_o2a, wait_fsync)
    /\ UNCHANGED <<EnabledMask, InterruptMask>>
    /\ UNCHANGED <<calls, laps>>
    /\ UNCHANGED dmaHw
    /\ UNCHANGED dmaLocals
    /\ UNCHANGED fsyncHw
    /\ UNCHANGED fsyncLocals
    /\ UNCHANGED decoder

EuMultiWaitAny(wait_redmule, wait_idma_a2o, wait_idma_o2a, wait_fsync, m) ==
    /\ pc = "idle"
    /\ LET selected == RequiredMask(wait_redmule, wait_idma_a2o,
                                     wait_idma_o2a, wait_fsync)
       IN  /\ eu_wait_events(selected, m, MultiAnyTimeout)
           /\ required_mask' = selected
    /\ IF m = EU_WAIT_MODE_WFE
         THEN timeout_cycles' = 0 /\ cycles' = 0
         ELSE TRUE
    /\ detected_events' = {}
    /\ op' = "eu_multi_wait_any"
    /\ ret' = {}
    /\ mode' = m
    /\ accumulated_events' = {}
    /\ wa_cycles' = 0
    /\ signalled' = {}
    /\ UNCHANGED prev_call
    /\ UNCHANGED hw
    /\ UNCHANGED <<calls, laps>>
    /\ UNCHANGED dmaHw
    /\ UNCHANGED dmaLocals
    /\ UNCHANGED fsyncHw
    /\ UNCHANGED fsyncLocals
    /\ UNCHANGED decoder

\* the caller takes the returned value; the finished call is remembered
CallerResumesAny ==
    /\ pc = "done"
    /\ pc' = "idle"
    /\ prev_call' = [op |-> op, mask |-> required_mask, val |-> ret,
                     before |-> hw, after |-> hw]
    /\ op' = "none"
    /\ ret' = {}
    /\ NoWait
    /\ NoMulti
    /\ UNCHANGED hw
    /\ UNCHANGED <<calls, laps>>
    /\ UNCHANGED dmaHw
    /\ UNCHANGED dmaLocals
    /\ UNCHANGED fsyncHw
    /\ UNCHANGED fsyncLocals
    /\ UNCHANGED decoder

AnyCaller ==
    \/ CallerResumesAny
    \/ \E mask \in InitMasks : EuEnableEvents(mask)
    \/ \E wait_redmule, wait_idma_a2o, wait_idma_o2a \in BOOLEAN, m \in WaitModes :
         EuMultiWaitAny(wait_redmule, wait_idma_a2o, wait_idma_o2a, FALSE, m)

\* a return and the caller's use of the value are one instant for the hardware
AnyHardware ==
    \E b \in UsedBits : pc # "done" /\ HwEvent(b)

AnyThread ==
    \/ eu_wait_events_polling
    \/ eu_wait_events_wfe_check
    \/ eu_wait_events_wfe_arm
    \/ eu_wait_events_wfe_sleep
    \/ eu_wait_events_wfe_recheck

AnyNext ==
    \/ AnyCaller
    \/ AnyThread
    \/ AnyHardware

AnySpec == Init /\ [][AnyNext]_vars

----------------------------------------------------------------------------
\* C28: for every mode (polling, WFE, IRQ) the value returned by
\* eu_wait_events contains only bits of event_mask, and it is nonzero only
\* if an event of event_mask was set and enabled.
C28_ReturnWithinEventMask ==
    [][(op = "eu_wait_events" /\ pc # "done" /\ pc' = "done")
         => /\ ret' \subseteq event_mask
            /\ ret' # {} => eu_check_events(event_mask) # {}]_vars

\* C29: in polling mode eu_multi_wait_any returns, at the first poll where a
\* selected done bit is set and enabled, exactly the selected bits that are
\* set and enabled; it waits for no other source and clears nothing, so a
\* second call with the same selection and no new hardware event returns the
\* same bits at its first poll.
C29_AnyReturnsAtFirstSignal ==
    [][/\ (op = "eu_multi_wait_any" /\ mode = EU_WAIT_MODE_POLLING /\ pc = "poll"
             /\ <<pc, cycles>>' # <<pc, cycles>>
             /\ eu_check_events(event_mask) # {})
          => /\ pc' = "done"
             /\ ret' = eu_check_events(event_mask)
             /\ ret' # {}
             /\ ret' \subseteq required_mask
             /\ hw' = hw
       /\ (op' = "eu_multi_wait_any" /\ mode' = EU_WAIT_MODE_POLLING)
          => hw' = hw \/ (pc' = pc /\ StickyBuffer \subseteq StickyBuffer')
       /\ (op = "eu_multi_wait_any" /\ mode = EU_WAIT_MODE_POLLING /\ pc = "poll"
             /\ <<pc, cycles>>' # <<pc, cycles>>
             /\ prev_call.op = "eu_multi_wait_any"
             /\ prev_call.mask = required_mask
             /\ prev_call.val # {}
             /\ prev_call.after = hw)
          => /\ cycles = 0
             /\ pc' = "done"
             /\ ret' = prev_call.val]_vars

C29_Witness ==
    /\ op = "eu_multi_wait_any"
    /\ mode = EU_WAIT_MODE_POLLING
    /\ pc = "done"
    /\ cycles = 0
    /\ prev_call.op = "eu_multi_wait_any"
    /\ prev_call.mask = required_mask
    /\ prev_call.after = hw
    /\ prev_call.val = ret
    /\ ret # {}
    /\ ret # required_mask


----------------------------------------------------------------------------
\* a step in which the barrier unit's clock ticks: a register access of
\* fsync_mm or a cycle without access
FsyncCycle ==
    \/ pc \in {"fs_aggr", "fs_id", "fs_control", "fs_status"}
    \/ c_sync_state' # c_sync_state

\* C31: done_o is 1 only in DONE; DONE is entered only from WAIT in a cycle
\* with a wake; DONE lasts one cycle; SYNC is entered only from IDLE by a
\* control write, so an accepted trigger gives at most one one-cycle done
\* pulse and no done pulse comes without a wake before it.
C31_SingleDonePulseAfterWake ==
    /\ [](done_o => c_sync_state = DONE)
    /\ [](\A t, w \in BOOLEAN :
            n_sync_state(t, w) = DONE => (c_sync_state = WAIT /\ w))
    /\ [](done_o => wake_seen)
    /\ [][c_sync_state' # c_sync_state
            => \E t, w \in BOOLEAN : c_sync_state' = n_sync_state(t, w)]_vars
    /\ [][(c_sync_state' = DONE /\ c_sync_state # DONE) => c_sync_state = WAIT]_vars
    /\ [][(c_sync_state = DONE /\ FsyncCycle) => (c_sync_state' = IDLE /\ ~done_o')]_vars
    /\ [][(c_sync_state' = SYNC /\ c_sync_state # SYNC)
            => (c_sync_state = IDLE /\ pc = "fs_control")]_vars

C31_Witness ==
    /\ op = "fsync_mm"
    /\ done_o
    /\ wake_seen
    /\ pc = "fs_status"

FsyncPorts == {"ht", "hn", "vt", "vn"}

\* C32: in SYNC exactly one of the four interfaces has sync asserted; a
\* neighbour interface only when aggr_reg = 1 and id_reg[1] = 1, a tree
\* interface otherwise, horizontal for id_reg[0] = 0 and vertical for
\* id_reg[0] = 1; in IDLE, WAIT and DONE none has sync asserted.
C32_ExactlyOneSyncInSync ==
    /\ c_sync_state = SYNC
         => /\ Cardinality({p \in FsyncPorts : fsync_if_sync[p]}) = 1
            /\ (fsync_if_sync.hn \/ fsync_if_sync.vn)
                 <=> (aggr_reg = 1 /\ (id_reg \div 2) % 2 = 1)
            /\ (fsync_if_sync.ht \/ fsync_if_sync.hn) <=> id_reg % 2 = 0
            /\ fsync_if_sync[fsync_if_o[1]]
    /\ c_sync_state # SYNC
         => /\ \A p \in FsyncPorts : ~fsync_if_sync[p]
            /\ fsync_if_o[1] = "none"

C32_Witness ==
    /\ c_sync_state = SYNC
    /\ aggr_reg = 1
    /\ id_reg % 4 = 3
    /\ fsync_if_sync.vn
    /\ op = "fsync_mm"


----------------------------------------------------------------------------
(* The iDMA register map of the software and the address decoder of the     *)
(* hardware, under one base address                                         *)

\* software: idma_mm_utils.h
IDMA_MM_BASE_AXI2OBI == idma_base + 256
IDMA_MM_BASE_OBI2AXI == idma_base

IDMA_CONF_OFFSET == 0
IDMA_STATUS_OFFSET == 4
IDMA_NEXT_ID_OFFSET == 68
IDMA_DONE_ID_OFFSET == 132
IDMA_DST_ADDR_LOW_OFFSET == 208
IDMA_SRC_ADDR_LOW_OFFSET == 216
IDMA_LENGTH_LOW_OFFSET == 224
IDMA_DST_STRIDE_2_LOW_OFFSET == 232
IDMA_SRC_STRIDE_2_LOW_OFFSET == 240
IDMA_REPS_2_LOW_OFFSET == 248
IDMA_DST_STRIDE_3_LOW_OFFSET == 256
IDMA_SRC_STRIDE_3_LOW_OFFSET == 264
IDMA_REPS_3_LOW_OFFSET == 272

\* the IDMA_*_ADDR(is_l1_to_l2) macros: base of the direction plus the offset
IDMA_ADDR(is_l1_to_l2, offset) ==
    IF is_l1_to_l2 # 0
      THEN IDMA_MM_BASE_OBI2AXI + offset
      ELSE IDMA_MM_BASE_AXI2OBI + offset

\* hardware: idma_obi_ctrl_decoder
DIRECTION_OFFSET == 512
IDMA_CONFIG_OFFSET == 0

\* bits [11:0] of an address
Low12(a) == a % 4096

\* the upper end of the control space is a package parameter; the accesses
\* of the helpers stay below idma_base + 0x400
is_address_in_range ==
    obi_addr >= idma_base

\* direction: 1 = OBI2AXI, 0 = AXI2OBI
decoder_direction ==
    IF obi_addr >= idma_base + DIRECTION_OFFSET THEN 1 ELSE 0

\* 12-bit subtraction
reg_offset ==
    IF decoder_direction = 1
      THEN (Low12(obi_addr) + 8192 - Low12(idma_base) - Low12(DIRECTION_OFFSET)) % 4096
      ELSE (Low12(obi_addr) + 4096 - Low12(idma_base)) % 4096

is_valid_access ==
    /\ is_address_in_range
    /\ \/ reg_offset = IDMA_CONFIG_OFFSET
       \/ (reg_offset >= 4 /\ reg_offset <= 64 /\ reg_offset % 4 = 0)
       \/ (reg_offset >= 68 /\ reg_offset <= 128 /\ reg_offset % 4 = 0)
       \/ (reg_offset >= 132 /\ reg_offset <= 192 /\ reg_offset % 4 = 0)
       \/ reg_offset = IDMA_DST_ADDR_LOW_OFFSET
       \/ reg_offset = IDMA_SRC_ADDR_LOW_OFFSET
       \/ reg_offset = IDMA_LENGTH_LOW_OFFSET
       \/ reg_offset = IDMA_DST_STRIDE_2_LOW_OFFSET
       \/ reg_offset = IDMA_SRC_STRIDE_2_LOW_OFFSET
       \/ reg_offset = IDMA_REPS_2_LOW_OFFSET
       \/ reg_offset = IDMA_DST_STRIDE_3_LOW_OFFSET
       \/ reg_offset = IDMA_SRC_STRIDE_3_LOW_OFFSET
       \/ reg_offset = IDMA_REPS_3_LOW_OFFSET

\* channel_demux: the channel that receives the request, and its address
channel_demux ==
    IF is_valid_access /\ obi_req
      THEN IF decoder_direction = 1
             THEN <<"obi2axi", reg_offset>>
             ELSE <<"axi2obi", reg_offset>>
      ELSE <<"none", 0>>

\* base addresses the control space is placed at
DecBases == {IDMA_BASE, 0, 3840, 4096}
ChannelIds == {0, 1}

\* one access mmio32(IDMA_..._ADDR(is_l1_to_l2)) on the bus
mmio32_idma(name, is_l1_to_l2, offset) ==
    /\ ~obi_req
    /\ pc = "idle"
    /\ obi_req' = TRUE
    /\ obi_addr' = IDMA_ADDR(is_l1_to_l2, offset)
    /\ mm_direction' = is_l1_to_l2
    /\ mm_offset' = offset
    /\ op' = name
    /\ UNCHANGED <<pc, ret, laps, calls, prev_call, idma_base>>
    /\ UNCHANGED hw
    /\ UNCHANGED waitLocals
    /\ UNCHANGED multiLocals
    /\ UNCHANGED hist
    /\ UNCHANGED dmaHw
    /\ UNCHANGED dmaLocals
    /\ UNCHANGED fsyncHw
    /\ UNCHANGED fsyncLocals

idma_mm_conf_dir_access(is_l1_to_l2) ==
    mmio32_idma("idma_mm_conf_dir", is_l1_to_l2, IDMA_CONF_OFFSET)

idma_mm_is_busy_dir_access(is_l1_to_l2, channel_id) ==
    mmio32_idma("idma_mm_is_busy_dir", is_l1_to_l2,
                IDMA_STATUS_OFFSET + channel_id * 4)

idma_mm_next_id_dir_access(is_l1_to_l2, channel_id) ==
    mmio32_idma("idma_mm_start_transfer_dir", is_l1_to_l2,
                IDMA_NEXT_ID_OFFSET + channel_id * 4)

idma_mm_get_done_id_dir_access(is_l1_to_l2, channel_id) ==
    mmio32_idma("idma_mm_get_done_id_dir", is_l1_to_l2,
                IDMA_DONE_ID_OFFSET + channel_id * 4)

idma_mm_set_addr_len_dir_access(is_l1_to_l2) ==
    \E offset \in {IDMA_DST_ADDR_LOW_OFFSET, IDMA_SRC_ADDR_LOW_OFFSET,
                   IDMA_LENGTH_LOW_OFFSET} :
        mmio32_idma("idma_mm_set_addr_len_dir", is_l1_to_l2, offset)

idma_mm_set_2d_params_dir_access(is_l1_to_l2) ==
    \E offset \in {IDMA_DST_STRIDE_2_LOW_OFFSET, IDMA_SRC_STRIDE_2_LOW_OFFSET,
                   IDMA_REPS_2_LOW_OFFSET} :
        mmio32_idma("idma_mm_set_2d_params_dir", is_l1_to_l2, offset)

idma_mm_set_3d_params_dir_access(is_l1_to_l2) ==
    \E offset \in {IDMA_DST_STRIDE_3_LOW_OFFSET, IDMA_SRC_STRIDE_3_LOW_OFFSET,
                   IDMA_REPS_3_LOW_OFFSET} :
        mmio32_idma("idma_mm_set_3d_params_dir", is_l1_to_l2, offset)

\* the access is answered in the same cycle; the bus is free again
ObiResponse ==
    /\ obi_req
    /\ obi_req' = FALSE
    /\ obi_addr' = 0
    /\ mm_direction' = 0
    /\ mm_offset' = 0
    /\ op' = "none"
    /\ UNCHANGED <<pc, ret, laps, calls, prev_call, idma_base>>
    /\ UNCHANGED hw
    /\ UNCHANGED waitLocals
    /\ UNCHANGED multiLocals
    /\ UNCHANGED hist
    /\ UNCHANGED dmaHw
    /\ UNCHANGED dmaLocals
    /\ UNCHANGED fsyncHw
    /\ UNCHANGED fsyncLocals

DecInit ==
    /\ Reset
    /\ STALLING = FALSE
    /\ idma_base \in DecBases

DecNext ==
    \/ \E d \in Dirs : idma_mm_conf_dir_access(d)
    \/ \E d \in Dirs, c \in ChannelIds : idma_mm_is_busy_dir_access(d, c)
    \/ \E d \in Dirs, c \in ChannelIds : idma_mm_next_id_dir_access(d, c)
    \/ \E d \in Dirs, c \in ChannelIds : idma_mm_get_done_id_dir_access(d, c)
    \/ \E d \in Dirs : idma_mm_set_addr_len_dir_access(d)
    \/ \E d \in Dirs : idma_mm_set_2d_params_dir_access(d)
    \/ \E d \in Dirs : idma_mm_set_3d_params_dir_access(d)
    \/ ObiResponse

DecSpec == DecInit /\ [][DecNext]_vars

\* C33 as stated: under one common base address every access the idma_mm_*
\* helpers issue for direction D at offset R is routed by the decoder to the
\* channel of direction D (1 = OBI2AXI, 0 = AXI2OBI) with reg_offset R.
C33_DecoderAgreesWithRegisterMap ==
    obi_req =>
        channel_demux = <<IF mm_direction # 0 THEN "obi2axi" ELSE "axi2obi", mm_offset>>


----------------------------------------------------------------------------
C35_ArmedAtWfe ==
    /\ pc = "wfe_sleep" => event_mask \subseteq InterruptMask
    /\ (pc = "wfe_sleep" /\ StickyBuffer \cap event_mask # {}) => WakeCondition

C35_Witness ==
    /\ pc = "wfe_sleep"
    /\ event_mask # {}
    /\ event_mask \ EnabledMask # {}
    /\ StickyBuffer \cap event_mask # {}
    /\ WakeCondition


----------------------------------------------------------------------------
(* The initialisation helpers                                               *)

\* calls of initialisation helpers in one run
MaxInitCalls == 2

\* a finished call of an initialisation helper: the sources it was called
\* for, its enable_irq argument, the registers before and after it
InitCall(name, sources, enable_irq) ==
    /\ pc = "idle"
    /\ calls < MaxInitCalls
    /\ calls' = calls + 1
    /\ op' = name
    /\ prev_call' = [op |-> name, mask |-> sources, val |-> enable_irq,
                     before |-> hw, after |-> hw']
    /\ UNCHANGED <<pc, ret>>
    /\ UNCHANGED waitLocals
    /\ UNCHANGED multiLocals
    /\ UNCHANGED hist
    /\ UNCHANGED laps
    /\ UNCHANGED dmaHw
    /\ UNCHANGED dmaLocals
    /\ UNCHANGED fsyncHw
    /\ UNCHANGED fsyncLocals
    /\ UNCHANGED decoder

eu_init ==
    /\ StickyBuffer' = StickyBuffer \ EU_ALL
    /\ EnabledMask' = {}
    /\ InterruptMask' = {}
    /\ InitCall("eu_init", {}, FALSE)

eu_redmule_init(enable_irq) ==
    /\ eu_clear_events(EU_ALL)
    /\ eu_enable_events(EU_REDMULE_ALL_MASK)
    /\ IF enable_irq
         THEN eu_enable_irq(EU_REDMULE_DONE_MASK)
         ELSE UNCHANGED InterruptMask
    /\ InitCall("eu_redmule_init", {"redmule"}, enable_irq)

eu_idma_init(enable_irq) ==
    /\ eu_clear_events(EU_ALL)
    /\ eu_enable_events(EU_IDMA_ALL_MASK)
    /\ IF enable_irq
         THEN eu_enable_irq(EU_IDMA_ALL_DONE_MASK)
         ELSE UNCHANGED InterruptMask
    /\ InitCall("eu_idma_init", {"idma_a2o", "idma_o2a"}, enable_irq)

eu_fsync_init(enable_irq) ==
    /\ eu_clear_events(EU_ALL)
    /\ eu_enable_events(EU_FSYNC_ALL_MASK)
    /\ IF enable_irq
         THEN eu_enable_irq(EU_FSYNC_DONE_MASK)
         ELSE UNCHANGED InterruptMask
    /\ InitCall("eu_fsync_init", {"fsync"}, enable_irq)

eu_multi_init(redmule_enable, idma_a2o_enable, idma_o2a_enable, fsync_enable, enable_irq) ==
    /\ eu_clear_events(EU_ALL)
    /\ LET em == (IF redmule_enable THEN EU_REDMULE_ALL_MASK ELSE {})
                   \cup (IF idma_a2o_enable THEN EU_IDMA_A2O_DONE_MASK ELSE {})
                   \cup (IF idma_o2a_enable THEN EU_IDMA_O2A_DONE_MASK ELSE {})
                   \cup (IF fsync_enable THEN EU_FSYNC_ALL_MASK ELSE {})
           im == (IF redmule_enable /\ enable_irq THEN EU_REDMULE_DONE_MASK ELSE {})
                   \cup (IF idma_a2o_enable /\ enable_irq THEN EU_IDMA_A2O_DONE_MASK ELSE {})
                   \cup (IF idma_o2a_enable /\ enable_irq THEN EU_IDMA_O2A_DONE_MASK ELSE {})
                   \cup (IF fsync_enable /\ enable_irq THEN EU_FSYNC_DONE_MASK ELSE {})
       IN  /\ IF em # {} THEN eu_enable_events(em) ELSE UNCHANGED EnabledMask
           /\ IF im # {} THEN eu_enable_irq(im) ELSE UNCHANGED InterruptMask
    /\ InitCall("eu_multi_init",
                (IF redmule_enable THEN {"redmule"} ELSE {})
                  \cup (IF idma_a2o_enable THEN {"idma_a2o"} ELSE {})
                  \cup (IF idma_o2a_enable THEN {"idma_o2a"} ELSE {})
                  \cup (IF fsync_enable THEN {"fsync"} ELSE {}),
                enable_irq)

\* the done lines that signal between the calls
InitBits == {EU_IDMA_A2O_DONE_BIT, EU_REDMULE_DONE_BIT, EU_FSYNC_DONE_BIT}

InitCaller ==
    \/ eu_init
    \/ \E enable_irq \in BOOLEAN : eu_redmule_init(enable_irq)
    \/ \E enable_irq \in BOOLEAN : eu_idma_init(enable_irq)
    \/ \E enable_irq \in BOOLEAN : eu_fsync_init(enable_irq)
    \/ \E r, a, o, f, enable_irq \in BOOLEAN : eu_multi_init(r, a, o, f, enable_irq)

InitHardware ==
    \E b \in InitBits : HwEvent(b)

InitNext ==
    \/ InitCaller
    \/ InitHardware

InitSpec == Init /\ [][InitNext]_vars

InitHelpers == {"eu_redmule_init", "eu_idma_init", "eu_fsync_init", "eu_multi_init"}

\* the events and the completion events of a set of sources
SourceEvents(sources) ==
    UNION {CASE x = "redmule" -> 8 .. 11
             [] x = "idma_a2o" -> {2}
             [] x = "idma_o2a" -> {3}
             [] x = "fsync" -> {24, 25} : x \in sources}

SourceDone(sources) ==
    UNION {CASE x = "redmule" -> {10}
             [] x = "idma_a2o" -> {2}
             [] x = "idma_o2a" -> {3}
             [] x = "fsync" -> {24} : x \in sources}

\* C36: after an initialisation helper the buffer is empty (pending bits of
\* other sources included), EnabledMask is the former mask plus the events
\* of the helper's sources, InterruptMask is the former mask plus the
\* completion events of the sources when enable_irq is nonzero and unchanged
\* otherwise; after eu_init all three registers are 0.
C36_InitHelpersAdditive ==
    /\ op \in InitHelpers
         => /\ prev_call.after[1] = {}
            /\ prev_call.after[2] = prev_call.before[2] \cup SourceEvents(prev_call.mask)
            /\ prev_call.after[3] = prev_call.before[3]
                                      \cup (IF prev_call.val
                                              THEN SourceDone(prev_call.mask)
                                              ELSE {})
    /\ op = "eu_init" => prev_call.after = <<{}, {}, {}>>

C36_Witness ==
    /\ op = "eu_idma_init"
    /\ ~prev_call.val
    /\ EU_FSYNC_DONE_BIT \in prev_call.before[1]
    /\ EU_REDMULE_DONE_BIT \in prev_call.before[2]
    /\ EU_REDMULE_DONE_BIT \in prev_call.before[3]
    /\ prev_call.after[1] = {}
    /\ prev_call.after[2] = {2, 3} \cup (8 .. 11)
    /\ prev_call.after[3] = {EU_REDMULE_DONE_BIT}


----------------------------------------------------------------------------
(* eu_multi_wait_any with the three modes of eu_wait_events                 *)

\* eu_multi_wait_any(..., EU_WAIT_MODE_IRQ): eu_wait_events takes its IRQ case
EuMultiWaitAnyIrq(wait_redmule, wait_idma_a2o, wait_idma_o2a, wait_fsync) ==
    /\ pc = "idle"
    /\ LET selected == RequiredMask(wait_redmule, wait_idma_a2o,
                                     wait_idma_o2a, wait_fsync)
       IN  /\ pc' = "irq_enable"
           /\ event_mask' = selected
           /\ required_mask' = selected
           /\ preset' = (eu_check_events(selected) # {})
    /\ timeout_cycles' = MultiAnyTimeout
    /\ cycles' = 0
    /\ window' = {}
    /\ detected_events' = {}
    /\ op' = "eu_multi_wait_any"
    /\ ret' = {}
    /\ mode' = EU_WAIT_MODE_IRQ
    /\ accumulated_events' = {}
    /\ wa_cycles' = 0
    /\ signalled' = {}
    /\ UNCHANGED hw
    /\ UNCHANGED aux

FrameCaller ==
    \/ CallerResumes
    \/ \E mask \in InitMasks : EuEnableEvents(mask)
    \/ \E wait_redmule, wait_idma_a2o, wait_idma_o2a \in BOOLEAN, m \in WaitModes :
         EuMultiWaitAny(wait_redmule, wait_idma_a2o, wait_idma_o2a, FALSE, m)
    \/ \E wait_redmule, wait_idma_a2o, wait_idma_o2a \in BOOLEAN :
         EuMultiWaitAnyIrq(wait_redmule, wait_idma_a2o, wait_idma_o2a, FALSE)

FrameNext ==
    \/ FrameCaller
    \/ ModeThread
    \/ Hardware

FrameSpec == Init /\ [][FrameNext]_vars

\* C37 as stated: a wait clears no buffer bit outside its awaited mask, does
\* not change EnabledMask and removes no bit from InterruptMask.
C37_WaitTouchesOnlyItsMask ==
    [][(op = "eu_multi_wait_any" /\ op' = op)
         => /\ (StickyBuffer \ StickyBuffer') \subseteq required_mask
            /\ EnabledMask' = EnabledMask
            /\ InterruptMask \subseteq InterruptMask']_vars


----------------------------------------------------------------------------
\* C38: eu_multi_wait_all with no source selected returns 0 in WFE and in
\* polling mode: it never enters the WFE wait, it returns before any of its
\* polling budget is used (wa_cycles = 0), and it clears no buffer bit.
C38_EmptyWaitAllReturnsZero ==
    /\ [][(op = "wait_all" /\ required_mask = {} /\ pc # "done" /\ pc' = "done")
            => /\ ret' = {}
               /\ wa_cycles = 0
               /\ wa_cycles' = 0]_vars
    /\ []((op = "wait_all" /\ required_mask = {})
            => pc \notin {"wfe_check", "wfe_arm", "wfe_sleep", "wfe_recheck"})
    /\ [][(op = "wait_all" /\ op' = op /\ required_mask = {})
            => StickyBuffer \subseteq StickyBuffer']_vars

C38_Witness ==
    /\ op = "wait_all"
    /\ pc = "done"
    /\ required_mask = {}
    /\ mode = EU_WAIT_MODE_POLLING
    /\ ret = {}
    /\ wa_cycles = 0
    /\ eu_get_events_masked # {}


----------------------------------------------------------------------------
(* iDMA status queries on the extended status events [31:26]                *)

EU_IDMA_A2O_ERROR_BIT == 26
EU_IDMA_O2A_ERROR_BIT == 27
EU_IDMA_A2O_BUSY_BIT == 30
EU_IDMA_O2A_BUSY_BIT == 31
EU_IDMA_A2O_ERROR_MASK == {EU_IDMA_A2O_ERROR_BIT}
EU_IDMA_O2A_ERROR_MASK == {EU_IDMA_O2A_ERROR_BIT}
EU_IDMA_A2O_BUSY_MASK == {EU_IDMA_A2O_BUSY_BIT}
EU_IDMA_O2A_BUSY_MASK == {EU_IDMA_O2A_BUSY_BIT}

eu_idma_has_error ==
    LET events == eu_get_events
    IN  events \cap (EU_IDMA_A2O_ERROR_MASK \cup EU_IDMA_O2A_ERROR_MASK)

eu_idma_a2o_has_error ==
    eu_check_events(EU_IDMA_A2O_ERROR_MASK)

eu_idma_o2a_has_error ==
    eu_check_events(EU_IDMA_O2A_ERROR_MASK)

eu_idma_is_busy ==
    LET events == eu_get_events
    IN  events \cap (EU_IDMA_A2O_BUSY_MASK \cup EU_IDMA_O2A_BUSY_MASK)

eu_idma_a2o_is_busy ==
    eu_check_events(EU_IDMA_A2O_BUSY_MASK)

eu_idma_o2a_is_busy ==
    eu_check_events(EU_IDMA_O2A_BUSY_MASK)

\* the status lines of the two iDMA directions
IdmaStatusBits == {EU_IDMA_A2O_ERROR_BIT, EU_IDMA_O2A_ERROR_BIT,
                   EU_IDMA_A2O_BUSY_BIT, EU_IDMA_O2A_BUSY_BIT}

StatusCaller ==
    \/ eu_init
    \/ \E enable_irq \in BOOLEAN : eu_idma_init(enable_irq)

StatusHardware ==
    \E b \in IdmaStatusBits : HwEvent(b)

StatusNext ==
    \/ StatusCaller
    \/ StatusHardware

StatusSpec == Init /\ [][StatusNext]_vars

\* C39 as stated: in every reachable state eu_idma_has_error() is nonzero
\* exactly when eu_idma_a2o_has_error() or eu_idma_o2a_has_error() is, and
\* eu_idma_is_busy() is nonzero exactly when eu_idma_a2o_is_busy() or
\* eu_idma_o2a_is_busy() is.
C39_StatusQueriesAgree ==
    /\ eu_idma_has_error # {}
         <=> (eu_idma_a2o_has_error # {} \/ eu_idma_o2a_has_error # {})
    /\ eu_idma_is_busy # {}
         <=> (eu_idma_a2o_is_busy # {} \/ eu_idma_o2a_is_busy # {})


----------------------------------------------------------------------------
\* C40 as stated: for every nonzero timeout_cycles and no event arriving,
\* the 32-bit counter of eu_wait_events_polling never wraps before the
\* timeout comparison succeeds, and the loop exits with the counter at or
\* above timeout_cycles.
C40_CounterNeverWraps ==
    (op = "eu_wait_events_polling" /\ timeout_cycles # Zero32)
        => /\ laps = 0
           /\ (pc = "done" /\ ret = {}) => ~Lt32(cycles, timeout_cycles)

====
